---- MODULE Spec2Model ----
(***************************************************************************)
(* A model of the tft-stat-rs crawler: the bounded task schedulers         *)
(* (promise_buffer and the per-player loop of Main::do_cycle), the         *)
(* cache-aside store operations of Main, and the participant aggregation.  *)
(***************************************************************************)
EXTENDS Integers, Sequences, FiniteSets, TLC

\* ------------------------------------------------------------------ bounds
\* Largest number of tasks handed to promise_buffer.
MaxTasks == 3
\* Largest concurrency limit sz handed to promise_buffer.
MaxSz == 3
\* Largest number of summoner ids that get_top_players returns to do_cycle
\* in the scheduler specification (above the limit of 10 futures).
MaxPlayers == 11
\* How many of these players the upstream knows (get_by_summoner_id fails
\* for the others).
MaxKnown == 2
\* How often the clock may advance.
MaxTicks == 1
\* The participants of a game in the aggregation specification.
MaxParticipants == 9

\* ------------------------------------------------- program constants
\* main.rs:115  while !q.is_empty() && futures.len() < 10
FUTURES_LIMIT == 10

VARIABLES
  \* promise_buffer (promise_buffer.rs)
  pb_q,        \* q: VecDeque of not yet started futures (task ids)
  vec,         \* vec: the futures handed to select_all
  z,           \* z: the futures select_all gives back
  result,      \* result: <<task, outcome>> of the future that finished
  sz,          \* sz: the concurrency limit
  pb_pc,       \* position in promise_buffer
  on_result,   \* ghost: per task, the outcomes on_result was called with
  \* do_cycle (main.rs)
  q,           \* q: VecDeque<(usize, &String)> of players not yet started
  futures,     \* futures: FuturesUnordered, the player tasks in flight
  cpc,         \* position in run / do_cycle
  tpc,         \* per player task: position in process_summoner_id
  handled,     \* ghost: per player task, how often futures.next() returned it
  \* the crawl (main.rs)
  summoner_list, \* summoner_list: what get_top_players returned
  loc,         \* per player task: the local variables of its call stack
  matches,     \* collection "matches-4-1": a set of documents
  summoners,   \* collection "summoner-4-1"
  leagues,     \* collection "league-4-1"
  now,         \* the clock Utc::now() reads, in hours
  ticks,       \* how often the clock has advanced
  cycle,       \* ghost: 1 in the first do_cycle of run, 2 in every later one
  en,          \* get_top_players: the locals of the enumeration in progress
  enc,         \* numeric_league_util: the arguments and the result of a call
  build        \* the build of the binary: "debug" (overflow checks) or "release"

pbVars == <<pb_q, vec, z, result, sz, pb_pc, on_result>>
dcVars == <<q, futures, cpc, tpc, handled>>
storeVars == <<matches, summoners, leagues>>
crVars == <<summoner_list, loc, storeVars, now, ticks, cycle, en, enc, build>>
vars == <<pbVars, dcVars, crVars>>

NoResult == <<0, "none">>

\* ------------------------------------------------ numeric_league_util.rs
\* i32::MIN (main.rs:283, main.rs:312)
I32_MIN == -2147483647 - 1

\* i32::MAX (numeric_league_util.rs:51)
I32_MAX == 2147483647

\* The sequence without its last element.
Front(seq) == SubSeq(seq, 1, Len(seq) - 1)

\* a + b of two i32 does not fit in i32 (numeric_league_util.rs:25, 90)
AddOverflows(a, b) ==
  \/ b > 0 /\ a > I32_MAX - b
  \/ b < 0 /\ a < I32_MIN - b

\* a + b in i32 as a release build computes it: modulo 2^32
\* (numeric_league_util.rs:25, 90)
WrappingAdd(a, b) ==
  IF b > 0 /\ a > I32_MAX - b
  THEN (a - I32_MAX - 1) + (b - I32_MAX - 1)
  ELSE IF b < 0 /\ a < I32_MIN - b
  THEN (a + I32_MAX + 1) + (b + I32_MAX + 1)
  ELSE a + b

\* The builds of the crate: in a debug build (overflow checks on) an i32
\* addition that overflows panics, in a release build it wraps
\* (numeric_league_util.rs:25, 90; main.rs:305).
Builds == {"debug", "release"}

\* No call of numeric_league_util is in progress.
EncOff == [pc |-> "off"]

\* Division that rounds to the nearest integer.
RoundDiv(a, b) == IF a >= 0 THEN (a + b \div 2) \div b ELSE -((-a + b \div 2) \div b)

\* Rust's integer division truncates toward zero.
TruncDiv(a, b) ==
  IF a >= 0 \/ a % b = 0 THEN a \div b ELSE (a \div b) + 1

ApexTiers == {"MASTER", "GRANDMASTER", "CHALLENGER"}
LowTiers == {"IRON", "BRONZE", "SILVER", "GOLD", "PLATINUM", "DIAMOND"}
Divisions == {"IV", "III", "II", "I"}

\* numeric_league_util.rs:12,20  the two panic!() arms of league_to_numeric
league_to_numeric_panics(tier, rank) ==
  \/ tier \notin LowTiers \cup ApexTiers
  \/ tier \notin ApexTiers /\ rank \notin Divisions

\* numeric_league_util.rs:2-24  base + rank_addition (defined where
\* league_to_numeric does not panic in a match arm)
base_rank_addition(tier, rank) ==
  LET base == CASE tier = "IRON" -> 0
                [] tier = "BRONZE" -> 400
                [] tier = "SILVER" -> 800
                [] tier = "GOLD" -> 1200
                [] tier = "PLATINUM" -> 1600
                [] tier = "DIAMOND" -> 2000
                [] tier = "MASTER" -> 2400
                [] tier = "GRANDMASTER" -> 2400
                [] tier = "CHALLENGER" -> 2400
      rank_addition ==
        IF ~(tier = "MASTER" \/ tier = "GRANDMASTER" \/ tier = "CHALLENGER")
        THEN CASE rank = "IV" -> 0
               [] rank = "III" -> 100
               [] rank = "II" -> 200
               [] rank = "I" -> 300
        ELSE 0
  IN base + rank_addition

\* numeric_league_util.rs:25  the sum with league_points does not fit in
\* i32: a debug build panics here ("attempt to add with overflow"), a
\* release build wraps
league_to_numeric_overflows(tier, rank, league_points) ==
  AddOverflows(base_rank_addition(tier, rank), league_points)

\* numeric_league_util.rs:1-26 with league_points clamped to its band
league_to_numeric_clamped(tier, rank, league_points) ==
  WrappingAdd(base_rank_addition(tier, rank),
              IF tier \in ApexTiers THEN league_points
              ELSE IF league_points < 0 THEN 0
              ELSE IF league_points > 99 THEN 99 ELSE league_points)

\* numeric_league_util.rs:1-26  (defined where it does not panic; where the
\* sum overflows, the value of a release build)
league_to_numeric(tier, rank, league_points) ==
  WrappingAdd(base_rank_addition(tier, rank), league_points)

\* numeric_league_util.rs:28-73 with the apex band and one band below it
numeric_to_league_two_bands(x0) ==
  IF x0 >= 2400 THEN <<"MASTER+", "I", x0 - 2400>> ELSE <<"IRON", "IV", x0>>

\* numeric_league_util.rs:28-73
numeric_to_league(x0) ==
  LET tier == CASE x0 <= 399 -> "IRON"
                [] x0 >= 400 /\ x0 <= 799 -> "BRONZE"
                [] x0 >= 800 /\ x0 <= 1199 -> "SILVER"
                [] x0 >= 1200 /\ x0 <= 1599 -> "GOLD"
                [] x0 >= 1600 /\ x0 <= 1999 -> "PLATINUM"
                [] x0 >= 2000 /\ x0 <= 2399 -> "DIAMOND"
                [] x0 >= 2400 -> "MASTER+"
      x1 == CASE x0 <= 399 -> x0
              [] x0 >= 400 /\ x0 <= 799 -> x0 - 400
              [] x0 >= 800 /\ x0 <= 1199 -> x0 - 800
              [] x0 >= 1200 /\ x0 <= 1599 -> x0 - 1200
              [] x0 >= 1600 /\ x0 <= 1999 -> x0 - 1600
              [] x0 >= 2000 /\ x0 <= 2399 -> x0 - 2000
              [] x0 >= 2400 -> x0 - 2400
      division == CASE tier = "MASTER+" -> "I"
                    [] tier # "MASTER+" /\ x1 <= 99 -> "IV"
                    [] tier # "MASTER+" /\ x1 >= 100 /\ x1 <= 199 -> "III"
                    [] tier # "MASTER+" /\ x1 >= 200 /\ x1 <= 299 -> "II"
                    [] tier # "MASTER+" /\ x1 >= 300 -> "I"
      x2 == CASE tier = "MASTER+" -> x1
              [] tier # "MASTER+" /\ x1 <= 99 -> x1
              [] tier # "MASTER+" /\ x1 >= 100 /\ x1 <= 199 -> x1 - 100
              [] tier # "MASTER+" /\ x1 >= 200 /\ x1 <= 299 -> x1 - 200
              [] tier # "MASTER+" /\ x1 >= 300 -> x1 - 300
  IN <<tier, division, x2>>

\* numeric_league_util.rs:75-77  format!("{} {} {}LP", league, rank, lp)
league_to_str(league, rank, lp) ==
  league \o " " \o rank \o " " \o ToString(lp) \o "LP"

RECURSIVE SumNumeric(_)
\* numeric_league_util.rs:88-91  sum of league_to_numeric over ranks
SumNumeric(ranks) ==
  IF ranks = <<>> THEN 0
  ELSE WrappingAdd(SumNumeric(Front(ranks)),
                   league_to_numeric(ranks[Len(ranks)][1], ranks[Len(ranks)][2],
                                     ranks[Len(ranks)][3]))

RECURSIVE SumOverflows(_)
\* numeric_league_util.rs:90  some addition of the loop, or of a
\* league_to_numeric it calls, does not fit in i32
SumOverflows(ranks) ==
  IF ranks = <<>> THEN FALSE
  ELSE \/ SumOverflows(Front(ranks))
       \/ league_to_numeric_overflows(ranks[Len(ranks)][1], ranks[Len(ranks)][2],
                                      ranks[Len(ranks)][3])
       \/ AddOverflows(SumNumeric(Front(ranks)),
                       league_to_numeric(ranks[Len(ranks)][1], ranks[Len(ranks)][2],
                                         ranks[Len(ranks)][3]))

\* numeric_league_util.rs:98-106 with every apex tier counted once
SumWeightsCount(ranks) ==
  Cardinality({i \in 1..Len(ranks) : ranks[i][1] \in ApexTiers})

RECURSIVE SumWeights(_)
\* numeric_league_util.rs:98-106  CHALLENGER=3, GM=2, MASTER=1, else 0
SumWeights(ranks) ==
  IF ranks = <<>> THEN 0
  ELSE (CASE ranks[1][1] = "CHALLENGER" -> 3
          [] ranks[1][1] = "GRANDMASTER" -> 2
          [] ranks[1][1] = "MASTER" -> 1
          [] OTHER -> 0)
       + SumWeights(Tail(ranks))

\* numeric_league_util.rs:87,90  assert!(!ranks.is_empty()) fails, or some
\* entry makes league_to_numeric panic
team_avg_rank_str_panics(ranks) ==
  \/ ranks = <<>>
  \/ \E i \in 1..Len(ranks) : league_to_numeric_panics(ranks[i][1], ranks[i][2])

\* numeric_league_util.rs:86-119  (defined where it does not panic)
team_avg_rank_str(ranks) ==
  LET x == TruncDiv(SumNumeric(ranks), Len(ranks))
      l == numeric_to_league(x)
      sum == SumWeights(ranks)
      tier == IF l[1] = "MASTER+"
              THEN IF sum < 12 THEN "MASTER"
                   ELSE IF sum < 20 THEN "GRANDMASTER"
                   ELSE "CHALLENGER"
              ELSE l[1]
  IN league_to_str(tier, l[2], l[3])

\* ------------------------------------------------------- promise_buffer
\* Outcomes of a task of generic type T: a success value or an error.
Outcomes == {"ok", "err"}

PbTasks == DOMAIN on_result

\* promise_buffer.rs:17  the fill loop's exit test  vec.len() == sz
VecFullOffByOne == Cardinality(vec) = sz + 1
VecFull == Cardinality(vec) = sz

\* promise_buffer.rs:18-19  Some(x) => vec.push(x)
PB_Pop ==
  /\ pb_pc = "fill"
  /\ ~VecFull
  /\ pb_q # <<>>
  /\ vec' = vec \cup {Head(pb_q)}
  /\ pb_q' = Tail(pb_q)
  /\ UNCHANGED <<z, result, sz, pb_pc, on_result, dcVars, crVars>>

\* promise_buffer.rs:17,20  the fill loop ends: vec is full, or q is empty
PB_FillEnd ==
  /\ pb_pc = "fill"
  /\ (VecFull \/ pb_q = <<>>)
  /\ pb_pc' = "check"
  /\ UNCHANGED <<pb_q, vec, z, result, sz, on_result, dcVars, crVars>>

\* promise_buffer.rs:23  vec.len() == 0
VecEmptyOrLast == Cardinality(vec) <= 1
VecEmpty == Cardinality(vec) = 0

\* promise_buffer.rs:23-25  if vec.len() == 0 { break }
PB_Break ==
  /\ pb_pc = "check"
  /\ VecEmpty
  /\ pb_pc' = "done"
  /\ UNCHANGED <<pb_q, vec, z, result, sz, on_result, dcVars, crVars>>

\* The futures select_all returns besides the finished one.
SelectRestKeepsAll(v, t) == v
SelectRestDropsAll(v, t) == {}
SelectRest(v, t) == v \ {t}

\* promise_buffer.rs:26  select_all(vec).await: some future of vec finishes
\* first, with a success or an error; the others come back in z.
PB_SelectAll(t, o) ==
  /\ pb_pc = "check"
  /\ ~VecEmpty
  /\ t \in vec
  /\ result' = <<t, o>>
  /\ z' = SelectRest(vec, t)
  /\ vec' = {}
  /\ pb_pc' = "on_result"
  /\ UNCHANGED <<pb_q, sz, on_result, dcVars, crVars>>

\* promise_buffer.rs:27-28  on_result(result); vec = z
PB_OnResult ==
  /\ pb_pc = "on_result"
  /\ on_result' = [on_result EXCEPT ![result[1]] = Append(@, result[2])]
  /\ vec' = z
  /\ z' = {}
  /\ result' = NoResult
  /\ pb_pc' = "fill"
  /\ UNCHANGED <<pb_q, sz, dcVars, crVars>>

PB_Next ==
  \/ PB_Pop
  \/ PB_FillEnd
  \/ PB_Break
  \/ \E t \in PbTasks, o \in Outcomes : PB_SelectAll(t, o)
  \/ PB_OnResult

\* promise_buffer is entered with a queue of K tasks and a limit sz.
PB_Init(K, n) ==
  /\ pb_q = [i \in 1..K |-> i]
  /\ vec = {}
  /\ z = {}
  /\ result = NoResult
  /\ sz = n
  /\ pb_pc = "fill"
  /\ on_result = [i \in 1..K |-> <<>>]

\* promise_buffer is not running.
PB_Off ==
  /\ pb_q = <<>>
  /\ vec = {}
  /\ z = {}
  /\ result = NoResult
  /\ sz = 0
  /\ pb_pc = "off"
  /\ on_result = <<>>

\* ------------------------------------------------- do_cycle: the scheduler
Players == DOMAIN tpc

\* A future of a FuturesUnordered runs only while do_cycle awaits
\* futures.next() (main.rs:124), and next() returns as soon as one future has
\* finished: no other future runs between a task's end and its return.
Polled(t) ==
  /\ cpc = "next"
  /\ t \in futures
  /\ \A u \in futures : tpc[u] # "done"

\* main.rs:112-114  if q.is_empty() && futures.is_empty() { break }
DC_Break ==
  /\ cpc = "check"
  /\ q = <<>> /\ futures = {}
  /\ cpc' = "done"
  /\ UNCHANGED <<q, futures, tpc, handled, pbVars, crVars>>

\* main.rs:112  the loop goes on to the fill loop
DC_Enter ==
  /\ cpc = "check"
  /\ ~(q = <<>> /\ futures = {})
  /\ cpc' = "fill"
  /\ UNCHANGED <<q, futures, tpc, handled, pbVars, crVars>>

\* main.rs:115  the fill loop's test  !q.is_empty() && futures.len() < 10
MayPushNoLimit == q # <<>>
MayPush == q # <<>> /\ Cardinality(futures) < FUTURES_LIMIT

\* main.rs:115-121  futures.push(q.pop_front()...), then sleep(2000).await
DC_Push ==
  /\ cpc = "fill"
  /\ MayPush
  /\ futures' = futures \cup {Head(q)}
  /\ q' = Tail(q)
  /\ cpc' = "sleep"
  /\ UNCHANGED <<tpc, handled, pbVars, crVars>>

\* main.rs:121  the sleep ends, back to the fill loop's test
DC_Sleep ==
  /\ cpc = "sleep"
  /\ cpc' = "fill"
  /\ UNCHANGED <<q, futures, tpc, handled, pbVars, crVars>>

\* main.rs:115,124  the fill loop ends, do_cycle awaits futures.next()
DC_Await ==
  /\ cpc = "fill"
  /\ ~MayPush
  /\ cpc' = "next"
  /\ UNCHANGED <<q, futures, tpc, handled, pbVars, crVars>>

\* main.rs:124-125  futures.next().await gives Some(_ret) for a finished
\* task, which leaves the set. (None is unreachable: futures is not empty
\* here, by the tests of lines 112 and 115.)
DC_NextSome(t) ==
  /\ cpc = "next"
  /\ t \in futures
  /\ tpc[t] = "done"
  /\ futures' = futures \ {t}
  /\ handled' = [handled EXCEPT ![t] = @ + 1]
  /\ cpc' = "check"
  /\ UNCHANGED <<q, tpc, pbVars, crVars>>

DC_Next ==
  \/ DC_Break
  \/ DC_Enter
  \/ DC_Push
  \/ DC_Sleep
  \/ DC_Await
  \/ \E t \in Players : DC_NextSome(t)

\* main.rs:108-110  q holds the K enumerated players, futures is empty
DC_Init(K) ==
  /\ q = [i \in 1..K |-> i]
  /\ futures = {}
  /\ cpc = "check"
  /\ tpc = [i \in 1..K |-> "new"]
  /\ handled = [i \in 1..K |-> 0]

\* do_cycle is not running.
DC_Off ==
  /\ q = <<>>
  /\ futures = {}
  /\ cpc = "off"
  /\ tpc = <<>>
  /\ handled = <<>>

\* ------------------------------------------------------------ the store
\* main.rs:220  Duration::hours(24), in hours
HOURS_24 == 24
\* main.rs:221  Duration::days(7), in hours
DAYS_7 == 168
\* main.rs:243  Duration::hours(24) of the dummy document, in hours
TOMBSTONE_HOURS == 24
\* main.rs:342  Duration::days(30), in hours
DAYS_30 == 720
\* main.rs:398  Duration::days(1), in hours
DAYS_1 == 24
\* main.rs:309  num_ranked == 8, sum / 8
TEAM_SIZE == 8

\* Option<Document>::None of find_one, and a local that holds no document.
NoDoc == <<>>

\* main.rs:183-186  count_documents(doc! {"_id": id})
CountDocumentsZero(coll, id) == 0
CountDocumentsFullOnly(coll, id) ==
  Cardinality({d \in coll : d._id = id /\ "_matchTimestamp" \in DOMAIN d})
CountDocuments(coll, id) == Cardinality({d \in coll : d._id = id})

\* main.rs:324-327, 366-369  find_one(doc! {"_id": id})
FindOneNone(coll, id) == NoDoc
FindOne(coll, id) ==
  IF \E d \in coll : d._id = id
  THEN CHOOSE d \in coll : d._id = id
  ELSE NoDoc

\* main.rs:229-232, 245-248, 344-347, 400-403  insert_one: the store keeps
\* _id unique in a collection, an insert of a second document under a
\* stored _id is refused (and reaches the caller as an error).
InsertAcceptedAlways(coll, doc) == TRUE
InsertAccepted(coll, doc) == \A d \in coll : d._id # doc._id

\* main.rs:219-222  std::cmp::max
MinOf(a, b) == IF a <= b THEN a ELSE b
MaxOf(a, b) == IF a >= b THEN a ELSE b

\* ---------------------------------------------------------- the upstream
\* What the upstream service holds, in the model: the ladder lists two
\* players, s1 and s2; the recent matches of s1 are m1 and m2, that of s2 is
\* m1; both matches name the participant u1.  Every other player has no
\* recent match.

\* tft_summoner_v1().get_by_summoner_id (main.rs:136-140): the Summoner
ApiSummonerById(sid) ==
  [id |-> sid,
   puuid |-> CASE sid = "s1" -> "u1" [] sid = "s2" -> "u2"
                  [] OTHER -> "u-" \o sid,
   name |-> "name-" \o sid,
   accountId |-> "acc-" \o sid]

\* tft_summoner_v1().get_by_puuid (main.rs:330-334): the Summoner
ApiSummonerByPuuid(u) ==
  ApiSummonerById(CASE u = "u1" -> "s1" [] u = "u2" -> "s2")

\* tft_match_v1().get_match_ids_by_puuid (main.rs:145-149): the player's
\* recent match ids
ApiMatchIds(u) ==
  CASE u = "u1" -> <<"m1", "m2">>
    [] u = "u2" -> <<"m1">>
    [] OTHER -> <<>>

\* tft_match_v1().get_match (main.rs:194-198): the Match, game_datetime in
\* hours (m1 was played 10 hours, m2 200 hours before the crawl began)
ApiMatch(m) ==
  CASE m = "m1" -> [participants |-> <<"u1">>, game_datetime |-> -10]
    [] m = "m2" -> [participants |-> <<"u1">>, game_datetime |-> -200]

\* tft_league_v1().get_league_entries_for_summoner (main.rs:372-376): the
\* LeagueEntry list
ApiLeagueEntries(sid) ==
  CASE sid = "s1" ->
         <<[queueType |-> "RANKED_TFT_TURBO", summonerId |-> sid],
           [queueType |-> "RANKED_TFT", summonerId |-> sid,
            tier |-> "GOLD", rank |-> "II", leaguePoints |-> 50]>>
    [] sid = "s2" -> <<>>

\* ------------------------------------------------------------ documents
\* main.rs:335-343  the summoner document
SummonerDoc(su, puuid, current_timestamp) ==
  [id |-> su.id, puuid |-> su.puuid, name |-> su.name,
   accountId |-> su.accountId,
   _id |-> puuid,
   _documentCreated |-> current_timestamp,
   _documentExpire |-> current_timestamp + DAYS_30]

\* main.rs:378-380  .iter().find(|item| item.queue_type == RANKED_TFT)
RankedTft(entries) ==
  LET hits == {i \in 1..Len(entries) : entries[i].queueType = "RANKED_TFT"}
  IN IF hits = {} THEN NoDoc
     ELSE entries[CHOOSE i \in hits : \A j \in hits : i <= j]

\* main.rs:381-399  the league document
LeagueDoc(entries, summoner_id, current_timestamp) ==
  LET e == RankedTft(entries)
  IN IF e # NoDoc
     THEN [queueType |-> e.queueType, summonerId |-> e.summonerId,
           tier |-> e.tier, rank |-> e.rank, leaguePoints |-> e.leaguePoints,
           _status |-> "ranked",
           _id |-> summoner_id,
           _documentCreated |-> current_timestamp,
           _documentExpire |-> current_timestamp + DAYS_1]
     ELSE [_status |-> "unranked",
           _id |-> summoner_id,
           _documentCreated |-> current_timestamp,
           _documentExpire |-> current_timestamp + DAYS_1]

\* main.rs:219-222  the expiry of a full match document
MatchExpireMin(current_timestamp, match_timestamp) ==
  MinOf(current_timestamp + HOURS_24, match_timestamp + DAYS_7)
MatchExpire(current_timestamp, match_timestamp) ==
  MaxOf(current_timestamp + HOURS_24, match_timestamp + DAYS_7)

\* main.rs:209-227  the full match document; ext is what
\* get_extended_participant_info returned
MatchDoc(game, id, current_timestamp, ext) ==
  [participants |-> game.participants,
   game_datetime |-> game.game_datetime,
   _id |-> id,
   _documentCreated |-> current_timestamp,
   _matchTimestamp |-> game.game_datetime,
   _documentExpire |-> MatchExpire(current_timestamp, game.game_datetime),
   _aggregatedPlayerInfo |-> ext[1],
   _avgElo |-> ext[2],
   _avgEloText |-> ext[3]]

\* main.rs:237-244  the dummy document of a match that could not be fetched
TombstoneWithData(id, current_timestamp) ==
  [_id |-> id,
   _documentCreated |-> current_timestamp,
   _documentExpire |-> current_timestamp + TOMBSTONE_HOURS,
   _aggregatedPlayerInfo |-> <<>>,
   _avgElo |-> I32_MIN,
   _avgEloText |-> "UNRANKED"]
Tombstone(id, current_timestamp) ==
  [_id |-> id,
   _documentCreated |-> current_timestamp,
   _documentExpire |-> current_timestamp + TOMBSTONE_HOURS]

\* ------------------------------------- get_extended_participant_info
\* Document::get_str / get_i32 with unwrap_or (main.rs:281-283)
GetOr(doc, key, default) == IF key \in DOMAIN doc THEN doc[key] ELSE default

\* main.rs:258-262  the accumulators before the first participant
ExtInit == [ret |-> <<>>, ranks_vec |-> <<>>, sum |-> 0, num_ranked |-> 0]

\* main.rs:303-305  the standing is ranked and league_to_numeric is called:
\* it panics on a tier or rank it does not know; in a debug build it panics
\* as well when its own sum overflows (numeric_league_util.rs:25), and
\* `sum +=` panics when the sum of the encodings overflows (main.rs:305)
ParticipantPanics(acc, league_doc) ==
  LET tft_tier == GetOr(league_doc, "tier", "unranked")
      tft_rank == GetOr(league_doc, "rank", "unranked")
      tft_league_points == GetOr(league_doc, "leaguePoints", I32_MIN)
  IN /\ league_doc._status = "ranked"
     /\ \/ league_to_numeric_panics(tft_tier, tft_rank)
        \/ /\ build = "debug"
           /\ \/ league_to_numeric_overflows(tft_tier, tft_rank, tft_league_points)
              \/ AddOverflows(acc.sum, league_to_numeric(tft_tier, tft_rank,
                                                         tft_league_points))

\* main.rs:281-307  one participant, its two documents resolved (defined
\* where nothing panics; sum is an i32, which a release build wraps)
AddParticipant(acc, puuid, summoner_doc, league_doc) ==
  LET tft_tier == GetOr(league_doc, "tier", "unranked")
      tft_rank == GetOr(league_doc, "rank", "unranked")
      tft_league_points == GetOr(league_doc, "leaguePoints", I32_MIN)
      aggregated_doc ==
        [summonerId |-> summoner_doc.id,
         summonerName |-> summoner_doc.name,
         accountId |-> summoner_doc.accountId,
         puuid |-> puuid,
         tftTier |-> tft_tier,
         tftRank |-> tft_rank,
         tftLeaguePoints |-> tft_league_points]
      ranked == league_doc._status = "ranked"
  IN [ret |-> Append(acc.ret, aggregated_doc),
      ranks_vec |-> Append(acc.ranks_vec,
                           <<tft_tier, tft_rank, tft_league_points>>),
      sum |-> IF ranked
              THEN WrappingAdd(acc.sum,
                               league_to_numeric(tft_tier, tft_rank,
                                                 tft_league_points))
              ELSE acc.sum,
      num_ranked |-> IF ranked THEN acc.num_ranked + 1 ELSE acc.num_ranked]

\* main.rs:309-310  team_avg_rank_str is called and panics: on an entry
\* league_to_numeric does not know, or, in a debug build, when its sum
\* overflows (numeric_league_util.rs:90)
ExtResultPanics(acc) ==
  /\ acc.num_ranked = TEAM_SIZE
  /\ \/ team_avg_rank_str_panics(acc.ranks_vec)
     \/ build = "debug" /\ SumOverflows(acc.ranks_vec)

\* main.rs:309  the test  num_ranked == 8
AllRankedAtLeast(acc) == acc.num_ranked >= TEAM_SIZE
AllRanked(acc) == acc.num_ranked = TEAM_SIZE

\* main.rs:309-314  (ret, avg_elo, avg_elo_str)
ExtResult(acc) ==
  IF AllRanked(acc)
  THEN <<acc.ret, TruncDiv(acc.sum, TEAM_SIZE), team_avg_rank_str(acc.ranks_vec)>>
  ELSE <<acc.ret, I32_MIN, "UNRANKED">>

\* ------------------------------------------------ process_summoner_id
NoGame == <<>>

\* The locals of a player task before its first poll.
FreshLoc ==
  [player |-> "",            \* process_summoner_id: player.puuid
   player_match |-> <<>>,    \* process_summoner_id: player_match
   mi |-> 0,                 \* process_summoner_id: position of x in player_match
   new |-> 0, repeat |-> 0, new_error |-> 0,
   errors |-> 0,             \* ghost: how often the Err(e) arm logged
   current_timestamp |-> 0,  \* process_match_id: current_timestamp
   game |-> NoGame,          \* process_match_id: game
   pi |-> 0,                 \* get_extended_participant_info: position of puuid
   acc |-> ExtInit,          \* get_extended_participant_info: ret, ranks_vec, sum, num_ranked
   summoner_doc |-> NoDoc,   \* get_extended_participant_info: summoner_doc
   ts |-> 0,                 \* tft_summoner_v1 / tft_league_v1: current_timestamp
   doc |-> NoDoc]            \* the document built and about to be inserted

\* The task is alive and polled at position pc.
At(t, pc) == Polled(t) /\ tpc[t] = pc

\* The match id process_match_id is resolving.
CurMatch(t) == loc[t].player_match[loc[t].mi]
\* The puuid get_extended_participant_info is at.
CurPuuid(t) == loc[t].game.participants[loc[t].pi]

\* main.rs:158-166  process_match_id returned r ("Err", -1, 0 or 1): the arm
\* of the match counts it, and the for loop goes to the next match id.
AfterMatchErrIsRepeat(l, r) ==
  [l EXCEPT !.errors = IF r = "Err" THEN @ + 1 ELSE @,
            !.new_error = IF r = "Ok(-1)" THEN @ + 1 ELSE @,
            !.repeat = IF r \in {"Ok(0)", "Err"} THEN @ + 1 ELSE @,
            !.new = IF r = "Ok(1)" THEN @ + 1 ELSE @,
            !.mi = @ + 1,
            !.current_timestamp = 0, !.game = NoGame, !.pi = 0,
            !.acc = ExtInit, !.summoner_doc = NoDoc, !.ts = 0, !.doc = NoDoc]
AfterMatch(l, r) ==
  [l EXCEPT !.errors = IF r = "Err" THEN @ + 1 ELSE @,
            !.new_error = IF r = "Ok(-1)" THEN @ + 1 ELSE @,
            !.repeat = IF r = "Ok(0)" THEN @ + 1 ELSE @,
            !.new = IF r = "Ok(1)" THEN @ + 1 ELSE @,
            !.mi = @ + 1,
            !.current_timestamp = 0, !.game = NoGame, !.pi = 0,
            !.acc = ExtInit, !.summoner_doc = NoDoc, !.ts = 0, !.doc = NoDoc]

\* main.rs:158-177 with an Err(e) that ends the task at once
MatchReturnsAbandons(t, r) ==
  IF loc[t].mi < Len(loc[t].player_match) /\ r # "Err"
  THEN /\ loc' = [loc EXCEPT ![t] = AfterMatch(loc[t], r)]
       /\ tpc' = [tpc EXCEPT ![t] = "count"]
  ELSE /\ loc' = [loc EXCEPT ![t] = FreshLoc]
       /\ tpc' = [tpc EXCEPT ![t] = "done"]

\* main.rs:167-177  the for loop is over: the counts are logged, the task
\* ends and its locals are dropped.
MatchReturns(t, r) ==
  IF loc[t].mi < Len(loc[t].player_match)
  THEN /\ loc' = [loc EXCEPT ![t] = AfterMatch(loc[t], r)]
       /\ tpc' = [tpc EXCEPT ![t] = "count"]
  ELSE /\ loc' = [loc EXCEPT ![t] = FreshLoc]
       /\ tpc' = [tpc EXCEPT ![t] = "done"]

\* main.rs:136-144  get_by_summoner_id(region, id).await
T_GetBySummonerId(t, o) ==
  /\ At(t, "new")
  /\ IF o = "ok"
     THEN /\ loc' = [loc EXCEPT ![t].player = ApiSummonerById(summoner_list[t]).puuid]
          /\ tpc' = [tpc EXCEPT ![t] = "get_match_ids"]
     ELSE /\ tpc' = [tpc EXCEPT ![t] = "done"]
          /\ UNCHANGED loc
  /\ UNCHANGED <<q, futures, cpc, handled, pbVars>>
  /\ UNCHANGED <<summoner_list, storeVars, now, ticks, cycle, en, enc, build>>

\* main.rs:145-158, 167-177  get_match_ids_by_puuid(...).await, the for loop
\* begins; on an error (main.rs:150-153), or with no match id, the task ends
\* and its locals are dropped
T_GetMatchIds(t, o) ==
  /\ At(t, "get_match_ids")
  /\ IF o = "ok"
     THEN LET ids == ApiMatchIds(loc[t].player)
          IN IF ids = <<>>
             THEN /\ loc' = [loc EXCEPT ![t] = FreshLoc]
                  /\ tpc' = [tpc EXCEPT ![t] = "done"]
             ELSE /\ loc' = [loc EXCEPT ![t].player_match = ids, ![t].mi = 1]
                  /\ tpc' = [tpc EXCEPT ![t] = "count"]
     ELSE /\ tpc' = [tpc EXCEPT ![t] = "done"]
          /\ loc' = [loc EXCEPT ![t] = FreshLoc]
  /\ UNCHANGED <<q, futures, cpc, handled, pbVars>>
  /\ UNCHANGED <<summoner_list, storeVars, now, ticks, cycle, en, enc, build>>

\* ---------------------------------------------------- process_match_id
\* main.rs:180-192  count_documents(filter).await; a stored document ends
\* the call with Ok(0), a miss reads the clock and goes on to get_match
P_Count(t, o) ==
  /\ At(t, "count")
  /\ IF o = "err" THEN MatchReturns(t, "Err")
     ELSE IF CountDocuments(matches, CurMatch(t)) # 0 THEN MatchReturns(t, "Ok(0)")
     ELSE /\ loc' = [loc EXCEPT ![t].current_timestamp = now]
          /\ tpc' = [tpc EXCEPT ![t] = "get_match"]
  /\ UNCHANGED <<q, futures, cpc, handled, pbVars>>
  /\ UNCHANGED <<summoner_list, storeVars, now, ticks, cycle, en, enc, build>>

\* main.rs:264-272  the for loop of get_extended_participant_info reaches a
\* puuid: tft_summoner_v1 reads the clock (main.rs:323) and calls find_one
EnterParticipant(l, i) ==
  [l EXCEPT !.pi = i, !.summoner_doc = NoDoc, !.ts = now, !.doc = NoDoc]

\* main.rs:309-314, 206-227  the for loop is over: the result, and the
\* match document built from it
EnterMatchInsert(l, id) ==
  [l EXCEPT !.doc = MatchDoc(l.game, id, l.current_timestamp, ExtResult(l.acc)),
            !.summoner_doc = NoDoc, !.ts = 0]

\* main.rs:204-208, 264  get_match returned Some(game): the locals and the
\* position of the task as get_extended_participant_info begins its for
\* loop, which an empty participant list leaves at once
GotMatch(l, game, id) ==
  LET lg == [l EXCEPT !.game = game]
  IN IF game.participants = <<>>
     THEN [loc |-> EnterMatchInsert(lg, id), pc |-> "m_insert"]
     ELSE [loc |-> EnterParticipant(lg, 1), pc |-> "s_find"]

\* main.rs:194-204, 235-244  get_match(region_major, id).await: Some(game)
\* enters get_extended_participant_info, an error or None builds the dummy
\* document
P_GetMatch(t, o) ==
  /\ At(t, "get_match")
  /\ IF o = "some"
     THEN LET got == GotMatch(loc[t], ApiMatch(CurMatch(t)), CurMatch(t))
          IN /\ loc' = [loc EXCEPT ![t] = got.loc]
             /\ tpc' = [tpc EXCEPT ![t] = got.pc]
     ELSE /\ loc' = [loc EXCEPT ![t].doc = Tombstone(CurMatch(t), loc[t].current_timestamp)]
          /\ tpc' = [tpc EXCEPT ![t] = "tomb_insert"]
  /\ UNCHANGED <<q, futures, cpc, handled, pbVars>>
  /\ UNCHANGED <<summoner_list, storeVars, now, ticks, cycle, en, enc, build>>

\* main.rs:229-233  insert_one(doc).await of the full document, Ok(1)
P_InsertMatch(t, o) ==
  /\ At(t, "m_insert")
  /\ IF o = "ok" /\ InsertAccepted(matches, loc[t].doc)
     THEN /\ matches' = matches \cup {loc[t].doc}
          /\ MatchReturns(t, "Ok(1)")
     ELSE /\ UNCHANGED matches
          /\ MatchReturns(t, "Err")
  /\ UNCHANGED <<q, futures, cpc, handled, pbVars>>
  /\ UNCHANGED <<summoner_list, summoners, leagues, now, ticks, cycle, en, enc, build>>

\* main.rs:245-249  insert_one(doc).await of the dummy document, Ok(-1)
P_InsertTombstone(t, o) ==
  /\ At(t, "tomb_insert")
  /\ IF o = "ok" /\ InsertAccepted(matches, loc[t].doc)
     THEN /\ matches' = matches \cup {loc[t].doc}
          /\ MatchReturns(t, "Ok(-1)")
     ELSE /\ UNCHANGED matches
          /\ MatchReturns(t, "Err")
  /\ UNCHANGED <<q, futures, cpc, handled, pbVars>>
  /\ UNCHANGED <<summoner_list, summoners, leagues, now, ticks, cycle, en, enc, build>>

\* ------------------------------------------------------ tft_summoner_v1
\* main.rs:273-278, 365  tft_summoner_v1 returned summoner_doc: the call of
\* tft_league_v1(summoner_id) reads the clock and calls find_one
EnterLeague(l, summoner_doc) ==
  [l EXCEPT !.summoner_doc = summoner_doc, !.ts = now, !.doc = NoDoc]

\* main.rs:324-329, 351-354  find_one(filter).await: Some(doc) is returned
\* as it is, None goes on to the upstream
S_FindOne(t, o) ==
  /\ At(t, "s_find")
  /\ IF o = "err" THEN MatchReturns(t, "Err")
     ELSE IF FindOne(summoners, CurPuuid(t)) # NoDoc
     THEN /\ loc' = [loc EXCEPT ![t] = EnterLeague(loc[t], FindOne(summoners, CurPuuid(t)))]
          /\ tpc' = [tpc EXCEPT ![t] = "l_find"]
     ELSE /\ tpc' = [tpc EXCEPT ![t] = "s_fetch"]
          /\ UNCHANGED loc
  /\ UNCHANGED <<q, futures, cpc, handled, pbVars>>
  /\ UNCHANGED <<summoner_list, storeVars, now, ticks, cycle, en, enc, build>>

\* main.rs:330-334  get_by_puuid(region, puuid).await? failed: the ? returns
\* the error to the caller, whose own ? returns it from process_match_id;
\* nothing is written
S_FetchErrCached(t) ==
  /\ MatchReturns(t, "Err")
  /\ summoners' = summoners \cup {Tombstone(CurPuuid(t), loc[t].ts)}
  /\ UNCHANGED <<matches, leagues>>
S_FetchErr(t) ==
  /\ MatchReturns(t, "Err")
  /\ UNCHANGED storeVars

\* main.rs:330-343  get_by_puuid(region, puuid).await?, the document built
S_Fetch(t, o) ==
  /\ At(t, "s_fetch")
  /\ IF o = "err" THEN S_FetchErr(t)
     ELSE /\ loc' = [loc EXCEPT ![t].doc =
                       SummonerDoc(ApiSummonerByPuuid(CurPuuid(t)), CurPuuid(t), loc[t].ts)]
          /\ tpc' = [tpc EXCEPT ![t] = "s_insert"]
          /\ UNCHANGED storeVars
  /\ UNCHANGED <<q, futures, cpc, handled, pbVars>>
  /\ UNCHANGED <<summoner_list, now, ticks, cycle, en, enc, build>>

\* main.rs:344-349  insert_one(doc.clone()).await, doc.clone() returned
S_Insert(t, o) ==
  /\ At(t, "s_insert")
  /\ IF o = "ok" /\ InsertAccepted(summoners, loc[t].doc)
     THEN /\ summoners' = summoners \cup {loc[t].doc}
          /\ loc' = [loc EXCEPT ![t] = EnterLeague(loc[t], loc[t].doc)]
          /\ tpc' = [tpc EXCEPT ![t] = "l_find"]
     ELSE /\ UNCHANGED summoners
          /\ MatchReturns(t, "Err")
  /\ UNCHANGED <<q, futures, cpc, handled, pbVars>>
  /\ UNCHANGED <<summoner_list, matches, leagues, now, ticks, cycle, en, enc, build>>

\* -------------------------------------------------------- tft_league_v1
\* The summoner id tft_league_v1 is called with (main.rs:273, 278).
CurSummonerId(t) == loc[t].summoner_doc.id

\* main.rs:281-314  tft_league_v1 returned league_doc: the participant is
\* added; a panic of league_to_numeric or of team_avg_rank_str unwinds the
\* region's task, whose JoinHandle then returns and main panics (main.rs:79-80)
LeagueResolved(t, league_doc) ==
  IF ParticipantPanics(loc[t].acc, league_doc)
  THEN cpc' = "panicked" /\ UNCHANGED <<loc, tpc>>
  ELSE LET acc == AddParticipant(loc[t].acc, CurPuuid(t), loc[t].summoner_doc, league_doc)
           l == [loc[t] EXCEPT !.acc = acc]
       IN IF loc[t].pi < Len(loc[t].game.participants)
          THEN /\ loc' = [loc EXCEPT ![t] = EnterParticipant(l, loc[t].pi + 1)]
               /\ tpc' = [tpc EXCEPT ![t] = "s_find"]
               /\ UNCHANGED cpc
          ELSE IF ExtResultPanics(acc)
          THEN cpc' = "panicked" /\ UNCHANGED <<loc, tpc>>
          ELSE /\ loc' = [loc EXCEPT ![t] = EnterMatchInsert(l, CurMatch(t))]
               /\ tpc' = [tpc EXCEPT ![t] = "m_insert"]
               /\ UNCHANGED cpc

\* main.rs:366-371, 406-409  find_one(filter).await
L_FindOne(t, o) ==
  /\ At(t, "l_find")
  /\ IF o = "err" THEN MatchReturns(t, "Err") /\ UNCHANGED cpc
     ELSE IF FindOne(leagues, CurSummonerId(t)) # NoDoc
     THEN LeagueResolved(t, FindOne(leagues, CurSummonerId(t)))
     ELSE /\ tpc' = [tpc EXCEPT ![t] = "l_fetch"]
          /\ UNCHANGED <<loc, cpc>>
  /\ UNCHANGED <<q, futures, handled, pbVars>>
  /\ UNCHANGED <<summoner_list, storeVars, now, ticks, cycle, en, enc, build>>

\* main.rs:372-399  get_league_entries_for_summoner(...).await?, the
\* document built
L_FetchErrRetries(t) ==
  /\ tpc' = [tpc EXCEPT ![t] = "l_find"]
  /\ UNCHANGED loc
\* main.rs:372-380  get_league_entries_for_summoner(...).await? fails: the
\* error goes up through `?` (main.rs:280, 204) and process_match_id
\* returns it
L_FetchErr(t) == MatchReturns(t, "Err")

L_Fetch(t, o) ==
  /\ At(t, "l_fetch")
  /\ IF o = "err" THEN L_FetchErr(t)
     ELSE /\ loc' = [loc EXCEPT ![t].doc =
                       LeagueDoc(ApiLeagueEntries(CurSummonerId(t)), CurSummonerId(t), loc[t].ts)]
          /\ tpc' = [tpc EXCEPT ![t] = "l_insert"]
  /\ UNCHANGED <<q, futures, cpc, handled, pbVars>>
  /\ UNCHANGED <<summoner_list, storeVars, now, ticks, cycle, en, enc, build>>

\* main.rs:400-404  insert_one(doc.clone()).await, doc returned
L_Insert(t, o) ==
  /\ At(t, "l_insert")
  /\ IF o = "ok" /\ InsertAccepted(leagues, loc[t].doc)
     THEN /\ leagues' = leagues \cup {loc[t].doc}
          /\ LeagueResolved(t, loc[t].doc)
     ELSE /\ UNCHANGED <<leagues, cpc>>
          /\ MatchReturns(t, "Err")
  /\ UNCHANGED <<q, futures, handled, pbVars>>
  /\ UNCHANGED <<summoner_list, matches, summoners, now, ticks, cycle, en, enc, build>>

\* --------------------------------------------------- clock, TTL, run loop
\* The steps by which the model's clock advances.
TickSteps == {HOURS_24, DAYS_30}

\* The clock is read, and the store touched, only by code that runs between
\* two awaits: time passing and the store's expiry are taken at the awaits
\* of do_cycle (main.rs:121, 124) and of get_top_players, which it awaits
\* (main.rs:101, 439-449, 464-493).
AtAwait == cpc \in {"enum", "sleep", "next"}

\* A store whose expiry pass removes every document.
LiveNone(coll) == {}

\* The documents of a collection whose _documentExpire has not passed.
Live(coll) == {d \in coll : d._documentExpire > now}

\* The store's expiry pass removes the documents whose _documentExpire has
\* passed (main.rs:217-223, 240-244, 341-343, 397-399 set the field).
TTL_Sweep ==
  /\ AtAwait
  /\ \E d \in matches \cup summoners \cup leagues : d._documentExpire <= now
  /\ matches' = Live(matches)
  /\ summoners' = Live(summoners)
  /\ leagues' = Live(leagues)
  /\ UNCHANGED <<pbVars, dcVars, summoner_list, loc, now, ticks, cycle, en, enc, build>>

\* Time passes (Utc::now(), main.rs:192, 323, 365, reads it).
Tick(d) ==
  /\ AtAwait
  /\ ticks < MaxTicks
  /\ now' = now + d
  /\ ticks' = ticks + 1
  /\ UNCHANGED <<pbVars, dcVars, summoner_list, loc, storeVars, cycle, en, enc, build>>

\* ------------------------------------------------------ get_top_players
\* main.rs:420-438  the (tier, division) pairs of a cycle
Pairs ==
  << <<"DIAMOND", "I">>, <<"DIAMOND", "II">>, <<"DIAMOND", "III">>,
     <<"DIAMOND", "IV">>, <<"PLATINUM", "I">>, <<"PLATINUM", "II">>,
     <<"PLATINUM", "III">> >>

\* The locals of get_top_players as it calls get_league_entries for its
\* first pair: pair is the position in Pairs, page and ret are the locals of
\* the get_league_entries call in progress, out is ret of get_top_players,
\* attempts (ghost) counts the calls of get_league_entries for the pair.
EnFresh ==
  [pair |-> 1, num_failures |-> 0, attempts |-> 1,
   page |-> 1, ret |-> <<>>, out |-> <<>>, pc |-> "page"]

\* get_top_players is not running.
EnOff == [EnFresh EXCEPT !.attempts = 0, !.pc = "off"]

\* main.rs:101-110  get_top_players().await has returned list: q is filled
\* from it, no player task exists yet
CycleStarts(list) ==
  /\ summoner_list' = list
  /\ q' = [i \in 1..Len(list) |-> i]
  /\ futures' = {}
  /\ tpc' = [i \in 1..Len(list) |-> "new"]
  /\ loc' = [i \in 1..Len(list) |-> FreshLoc]
  /\ handled' = [i \in 1..Len(list) |-> 0]
  /\ cpc' = "check"

\* The upstream's ladder, in the model: DIAMOND I has two pages of one
\* player each, s1 and s2, then an empty page, and s3 on a fourth page; no
\* other pair has entries.
\* tft_league_v1().get_league_entries(region, tier, division, Some(page))
\* (main.rs:488-493)
LadderPage(tier, division, page) ==
  IF tier = "DIAMOND" /\ division = "I"
  THEN CASE page = 1 -> <<"s1">>
         [] page = 2 -> <<"s2">>
         [] page = 4 -> <<"s3">>
         [] OTHER -> <<>>
  ELSE <<>>

\* get_challenger_league / get_grandmaster_league / get_master_league
\* (main.rs:464-482): the one unpaginated list of an apex tier
LadderApex(tier) == <<>>

\* main.rs:444-446  num_failures == 5
TooManyFailuresLate(n) == n = 6
TooManyFailures(n) == n = 5

\* main.rs:427, 454-456  the for loop is at its last pair
IsLastPairFirst(i) == i >= 1
IsLastPair(i) == i = Len(Pairs)

\* main.rs:452-457  get_league_entries returned Ok(entries): they are
\* appended to ret; after the last pair get_top_players returns ret (the
\* locals of its loop are dropped) and do_cycle fills q, else the next pair
\* is called
EnumOk(entries) ==
  LET out == en.out \o entries
  IN IF IsLastPair(en.pair)
     THEN /\ en' = [EnFresh EXCEPT !.pair = en.pair, !.out = out, !.pc = "done"]
          /\ CycleStarts(out)
     ELSE /\ en' = [en EXCEPT !.pair = @ + 1, !.num_failures = 0,
                              !.attempts = 1, !.page = 1, !.ret = <<>>,
                              !.out = out]
          /\ UNCHANGED <<summoner_list, q, futures, tpc, loc, handled, cpc>>

\* main.rs:441-452  get_league_entries returned Err: the failure is counted;
\* at 5 the while loop breaks and expect panics, else 20 s are slept
EnumErr ==
  /\ IF TooManyFailures(en.num_failures + 1)
     THEN /\ en' = [en EXCEPT !.num_failures = @ + 1, !.pc = "panicked"]
          /\ cpc' = "panicked"
     ELSE /\ en' = [en EXCEPT !.num_failures = @ + 1, !.pc = "sleep"]
          /\ UNCHANGED cpc
  /\ UNCHANGED <<summoner_list, q, futures, tpc, loc, handled>>

\* main.rs:461-526  one upstream call of get_league_entries answers: the
\* list of an apex tier, or one page of a paginated pair (an empty page ends
\* the call with Ok(ret), any other is appended and the next is asked for)
E_Page(o) ==
  /\ cpc = "enum"
  /\ en.pc = "page"
  /\ LET tier == Pairs[en.pair][1]
         division == Pairs[en.pair][2]
         x == LadderPage(tier, division, en.page)
     IN IF o = "err" THEN EnumErr
        ELSE IF tier \in ApexTiers THEN EnumOk(LadderApex(tier))
        ELSE IF Len(x) = 0 THEN EnumOk(en.ret)
        ELSE /\ en' = [en EXCEPT !.ret = @ \o x, !.page = @ + 1]
             /\ UNCHANGED <<summoner_list, q, futures, tpc, loc, handled, cpc>>
  /\ UNCHANGED <<pbVars, storeVars, now, ticks, cycle, enc, build>>

\* main.rs:449, 490-491  the retry's call of get_league_entries: its own
\* page = 1 and ret = Vec::new()
RetryKeepsRet(e) == [e EXCEPT !.attempts = @ + 1, !.page = 1, !.pc = "page"]
Retry(e) == [e EXCEPT !.attempts = @ + 1, !.page = 1, !.ret = <<>>, !.pc = "page"]

\* main.rs:447-448  the sleep of 20 s is over: get_league_entries is called
\* again for the same pair, from page 1
E_Sleep ==
  /\ cpc = "enum"
  /\ en.pc = "sleep"
  /\ en' = Retry(en)
  /\ UNCHANGED <<pbVars, dcVars, summoner_list, loc, storeVars, now, ticks, cycle, enc, build>>

\* main.rs:93-97, 130, 101, 427-441  do_cycle returns, run calls it again:
\* get_top_players calls get_league_entries for its first pair
Run_Loop ==
  /\ cpc = "done"
  /\ cycle' = 2
  /\ cpc' = "enum"
  /\ en' = EnFresh
  /\ summoner_list' = <<>>
  /\ q' = <<>>
  /\ futures' = {}
  /\ tpc' = <<>>
  /\ loc' = <<>>
  /\ handled' = <<>>
  /\ UNCHANGED <<pbVars, storeVars, now, ticks, enc, build>>

\* For promise_buffer alone: the crawl is not running.
CR_Off ==
  /\ summoner_list = <<>>
  /\ loc = <<>>
  /\ matches = {} /\ summoners = {} /\ leagues = {}
  /\ now = 0 /\ ticks = 0 /\ cycle = 0
  /\ en = EnOff
  /\ enc = EncOff
  /\ build = "release"

\* main.rs:33-101, 427-441  the process has started one region's Main::run
\* with an empty store; do_cycle has called get_top_players, which has
\* called get_league_entries for its first pair.  (The standings of this
\* upstream keep every sum far inside i32, where the builds do not differ:
\* the release build is taken; the aggregation and the encoder
\* specifications run both.)
Init ==
  /\ PB_Off
  /\ q = <<>> /\ futures = {} /\ tpc = <<>> /\ handled = <<>>
  /\ cpc = "enum"
  /\ summoner_list = <<>>
  /\ loc = <<>>
  /\ matches = {} /\ summoners = {} /\ leagues = {}
  /\ now = 0 /\ ticks = 0 /\ cycle = 1
  /\ en = EnFresh
  /\ enc = EncOff
  /\ build = "release"

IoOutcomes == {"ok", "err"}

Next ==
  \/ \E o \in IoOutcomes : E_Page(o)
  \/ E_Sleep
  \/ DC_Break
  \/ DC_Enter
  \/ DC_Push
  \/ DC_Sleep
  \/ DC_Await
  \/ \E t \in Players : DC_NextSome(t)
  \/ Run_Loop
  \/ \E t \in Players, o \in IoOutcomes : T_GetBySummonerId(t, o)
  \/ \E t \in Players, o \in IoOutcomes : T_GetMatchIds(t, o)
  \/ \E t \in Players, o \in IoOutcomes : P_Count(t, o)
  \/ \E t \in Players, o \in {"some", "none", "err"} : P_GetMatch(t, o)
  \/ \E t \in Players, o \in IoOutcomes : P_InsertMatch(t, o)
  \/ \E t \in Players, o \in IoOutcomes : P_InsertTombstone(t, o)
  \/ \E t \in Players, o \in IoOutcomes : S_FindOne(t, o)
  \/ \E t \in Players, o \in IoOutcomes : S_Fetch(t, o)
  \/ \E t \in Players, o \in IoOutcomes : S_Insert(t, o)
  \/ \E t \in Players, o \in IoOutcomes : L_FindOne(t, o)
  \/ \E t \in Players, o \in IoOutcomes : L_Fetch(t, o)
  \/ \E t \in Players, o \in IoOutcomes : L_Insert(t, o)
  \/ \E d \in TickSteps : Tick(d)
  \/ TTL_Sweep

Spec == Init /\ [][Next]_vars

\* ------------------------------------------- the expiry specification
\* A later cycle of run: the first cycle, at hour 0, resolved every match id
\* of both players with no failure, and 24 hours or 30 days have passed
\* since.

\* What the first cycle stored (main.rs:381-399, 336-343, 209-227).
CycleOneLeagues == {LeagueDoc(ApiLeagueEntries("s1"), "s1", 0)}
CycleOneSummoners == {SummonerDoc(ApiSummonerByPuuid("u1"), "u1", 0)}
CycleOneMatches ==
  LET acc == AddParticipant(ExtInit, "u1",
                            SummonerDoc(ApiSummonerByPuuid("u1"), "u1", 0),
                            LeagueDoc(ApiLeagueEntries("s1"), "s1", 0))
  IN {MatchDoc(ApiMatch(m), m, 0, ExtResult(acc)) : m \in {"m1", "m2"}}

\* main.rs:93-101, 427-441  run has called do_cycle again, which has called
\* get_top_players, which has called get_league_entries for its first pair
ExpiryInit ==
  /\ PB_Off
  /\ q = <<>> /\ futures = {} /\ tpc = <<>> /\ handled = <<>>
  /\ cpc = "enum"
  /\ summoner_list = <<>>
  /\ loc = <<>>
  /\ matches = CycleOneMatches
  /\ summoners = CycleOneSummoners
  /\ leagues = CycleOneLeagues
  /\ now \in TickSteps
  /\ ticks = 1
  /\ cycle = 2
  /\ en = EnFresh
  /\ enc = EncOff
  /\ build \in Builds

ExpiryNext ==
  \/ \E o \in IoOutcomes : E_Page(o)
  \/ E_Sleep
  \/ DC_Break
  \/ DC_Enter
  \/ DC_Push
  \/ DC_Sleep
  \/ DC_Await
  \/ \E t \in Players : DC_NextSome(t)
  \/ Run_Loop
  \/ \E t \in Players, o \in IoOutcomes : T_GetBySummonerId(t, o)
  \/ \E t \in Players, o \in IoOutcomes : T_GetMatchIds(t, o)
  \/ \E t \in Players, o \in IoOutcomes : P_Count(t, o)
  \/ \E t \in Players, o \in {"some", "none", "err"} : P_GetMatch(t, o)
  \/ \E t \in Players, o \in IoOutcomes : P_InsertMatch(t, o)
  \/ \E t \in Players, o \in IoOutcomes : P_InsertTombstone(t, o)
  \/ \E t \in Players, o \in IoOutcomes : S_FindOne(t, o)
  \/ \E t \in Players, o \in IoOutcomes : S_Fetch(t, o)
  \/ \E t \in Players, o \in IoOutcomes : S_Insert(t, o)
  \/ \E t \in Players, o \in IoOutcomes : L_FindOne(t, o)
  \/ \E t \in Players, o \in IoOutcomes : L_Fetch(t, o)
  \/ \E t \in Players, o \in IoOutcomes : L_Insert(t, o)
  \/ TTL_Sweep

SpecExpiry == ExpiryInit /\ [][ExpiryNext]_vars

\* ------------------------------------------ the scheduler specification
\* Either promise_buffer runs over K <= MaxTasks tasks with a limit
\* sz <= MaxSz, or the per-player loop of do_cycle runs over
\* K <= MaxPlayers players that get_top_players has returned.  The upstream
\* knows the first MaxKnown of them, none of whom has a recent match: their
\* tasks await get_by_summoner_id and get_match_ids_by_puuid, either of which
\* may fail; for the others get_by_summoner_id fails.  The tasks in futures
\* take turns at their awaits.  (No i32 addition is reached: the release
\* build is taken.)

\* The i-th player of the ladder of the scheduler specification.
SchedPlayer(i) == "n" \o ToString(i)

\* main.rs:101-110  get_top_players has returned K players to an empty store
SchedCrawl(K) ==
  /\ summoner_list = [i \in 1..K |-> SchedPlayer(i)]
  /\ loc = [i \in 1..K |-> FreshLoc]
  /\ matches = {} /\ summoners = {} /\ leagues = {}
  /\ now = 0 /\ ticks = 0 /\ cycle = 1
  /\ en = [EnFresh EXCEPT !.pair = Len(Pairs), !.pc = "done",
                          !.out = [i \in 1..K |-> SchedPlayer(i)]]
  /\ enc = EncOff
  /\ build = "release"

SchedInit ==
  \/ /\ \E K \in 0..MaxTasks, n \in 0..MaxSz : PB_Init(K, n)
     /\ DC_Off
     /\ CR_Off
  \/ /\ \E K \in 0..MaxPlayers : DC_Init(K) /\ SchedCrawl(K)
     /\ PB_Off

\* What the upstream may answer to the task of the t-th player.
SchedOutcomes(t) == IF t <= MaxKnown THEN IoOutcomes ELSE {"err"}

SchedNext ==
  \/ PB_Next
  \/ DC_Next
  \/ \E t \in Players : \E o \in SchedOutcomes(t) : T_GetBySummonerId(t, o)
  \/ \E t \in Players, o \in IoOutcomes : T_GetMatchIds(t, o)

SpecSched == SchedInit /\ [][SchedNext]_vars

\* The scheduler under the executor: the code of promise_buffer and of
\* do_cycle goes on whenever it can (a sleep ends, a ready select_all or
\* next() returns), and the upstream call a polled task awaits is answered.
SpecSchedFair ==
  /\ SchedInit
  /\ [][SchedNext]_vars
  /\ WF_vars(PB_Next)
  /\ WF_vars(DC_Next)
  /\ \A t \in 1..MaxPlayers :
       WF_vars(\/ \E o \in SchedOutcomes(t) : T_GetBySummonerId(t, o)
               \/ \E o \in IoOutcomes : T_GetMatchIds(t, o))

\* ---------------------------------------- the enumeration specification
\* get_top_players taken call by call, followed by the player tasks of the
\* cycle.

\* main.rs:93-101  run has called do_cycle, which has called
\* get_top_players, which has called get_league_entries for its first pair
EnumInit ==
  /\ PB_Off
  /\ q = <<>> /\ futures = {} /\ tpc = <<>> /\ handled = <<>>
  /\ cpc = "enum"
  /\ summoner_list = <<>>
  /\ loc = <<>>
  /\ matches = {} /\ summoners = {} /\ leagues = {}
  /\ now = 0 /\ ticks = 0 /\ cycle = 1
  /\ en = EnFresh
  /\ enc = EncOff
  /\ build \in Builds

EnumNext ==
  \/ \E o \in IoOutcomes : E_Page(o)
  \/ E_Sleep
  \/ DC_Break
  \/ DC_Enter
  \/ DC_Push
  \/ DC_Sleep
  \/ DC_Await
  \/ \E t \in Players : DC_NextSome(t)
  \/ Run_Loop
  \/ \E t \in Players, o \in IoOutcomes : T_GetBySummonerId(t, o)
  \/ \E t \in Players, o \in IoOutcomes : T_GetMatchIds(t, o)
  \/ \E t \in Players, o \in IoOutcomes : P_Count(t, o)
  \/ \E t \in Players, o \in {"some", "none", "err"} : P_GetMatch(t, o)
  \/ \E t \in Players, o \in IoOutcomes : P_InsertMatch(t, o)
  \/ \E t \in Players, o \in IoOutcomes : P_InsertTombstone(t, o)
  \/ \E t \in Players, o \in IoOutcomes : S_FindOne(t, o)
  \/ \E t \in Players, o \in IoOutcomes : S_Fetch(t, o)
  \/ \E t \in Players, o \in IoOutcomes : S_Insert(t, o)
  \/ \E t \in Players, o \in IoOutcomes : L_FindOne(t, o)
  \/ \E t \in Players, o \in IoOutcomes : L_Fetch(t, o)
  \/ \E t \in Players, o \in IoOutcomes : L_Insert(t, o)

SpecEnum == EnumInit /\ [][EnumNext]_vars

\* ------------------------------------------- the encoder specification
\* The functions of numeric_league_util.rs, each called on arguments drawn
\* from the sets below, in a debug and in a release build.


\* Tier and division labels: the known ones, and one of each that
\* league_to_numeric does not know.
EncTiers == LowTiers \cup ApexTiers \cup {"EMERALD"}
EncRanks == Divisions \cup {"V"}

\* League points: inside a band, at its ends, outside of it, and at the ends
\* of i32.
EncPoints ==
  {I32_MIN, -32, -1, 0, 31, 50, 68, 99, 100, 620,
   I32_MAX - 2700, I32_MAX - 2400, I32_MAX - 2399, I32_MAX}

\* numeric_league_util.rs:171-180  the points of the first list of
\* test_team_avg_rank_str
ExamplePoints == <<1144, 653, 625, 506, 526, 192, 0, 0>>

\* Lists with the points of ExamplePoints: every apex tier at every place, and
\* DIAMOND II as well at the last (numeric_league_util.rs:171-180)
ExampleTeams ==
  { [i \in 1..8 |-> IF i = 8 THEN IF last = "DIAMOND"
                                  THEN <<"DIAMOND", "II", ExamplePoints[i]>>
                                  ELSE <<last, "I", ExamplePoints[i]>>
                    ELSE <<f[i], "I", ExamplePoints[i]>>] :
      f \in [1..7 -> ApexTiers], last \in ApexTiers \cup {"DIAMOND"} }

\* numeric_league_util.rs:183-204  the second and the third list of
\* test_team_avg_rank_str
TestTeams ==
  { << <<"GRANDMASTER", "I", 270>>, <<"MASTER", "I", 260>>,
       <<"MASTER", "I", 250>>, <<"GRANDMASTER", "I", 240>>,
       <<"MASTER", "I", 230>>, <<"MASTER", "I", 220>>,
       <<"MASTER", "I", 210>>, <<"MASTER", "I", 200>> >>,
    << <<"CHALLENGER", "I", 570>>, <<"CHALLENGER", "I", 560>>,
       <<"CHALLENGER", "I", 550>>, <<"CHALLENGER", "I", 540>>,
       <<"GRANDMASTER", "I", 530>>, <<"GRANDMASTER", "I", 520>>,
       <<"GRANDMASTER", "I", 510>>, <<"GRANDMASTER", "I", 500>> >> }

\* The league points of an entry whose encoding fits in i32 while the sum of
\* eight of them does not.
HugePoints == 268435456

\* The kinds of entries the lists of BlockTeams are made of.
EntryKinds ==
  << <<"CHALLENGER", "I", 1144>>, <<"GRANDMASTER", "I", 506>>,
     <<"MASTER", "I", 0>>, <<"GOLD", "III", 100>>,
     <<"MASTER", "I", HugePoints>> >>

\* The kind at place i of the list that has c[k] entries of kind k, kind by
\* kind.
RECURSIVE KindAt(_, _, _)
KindAt(c, i, k) == IF i <= c[k] THEN k ELSE KindAt(c, i - c[k], k + 1)

\* Lists of 8 entries: every way to take 8 entries of the 5 kinds.
BlockTeams ==
  { [i \in 1..8 |-> EntryKinds[KindAt(c, i, 1)]] :
      c \in { d \in [1..5 -> 0..8] : d[1] + d[2] + d[3] + d[4] + d[5] = 8 } }

\* The kinds of entries the lists of SignedTeams begin with: league_points
\* is an i32, so an encoding may be i32::MAX, exceed it, be i32::MIN or be
\* negative.
SignedKinds ==
  << <<"MASTER", "I", I32_MAX - 2400>>, <<"MASTER", "I", I32_MAX>>,
     <<"IRON", "IV", I32_MIN>>, <<"MASTER", "I", 0>>,
     <<"IRON", "IV", -1>>, <<"GOLD", "III", 100>> >>

\* Lists of 8 entries: every way to begin with 4 entries of the 6 signed
\* kinds, in every order, followed by 4 times MASTER I 0.
SignedTeams ==
  { [i \in 1..8 |-> IF i <= 4 THEN SignedKinds[f[i]] ELSE <<"MASTER", "I", 0>>] :
      f \in [1..4 -> 1..6] }

EncTeams ==
  ExampleTeams \cup TestTeams \cup BlockTeams \cup SignedTeams \cup {<<>>}

\* A call of league_to_numeric or of team_avg_rank_str with its arguments.
EncCall(op, b, tier, rank, lp, ranks) ==
  [pc |-> "call", op |-> op, build |-> b, tier |-> tier, rank |-> rank,
   league_points |-> lp, ranks |-> ranks, x |-> 0, league |-> <<>>,
   text |-> ""]

\* numeric_league_util.rs:1-26  league_to_numeric returns or panics
Enc_LeagueToNumeric ==
  /\ enc.pc = "call"
  /\ enc.op = "league_to_numeric"
  /\ enc' =
       IF league_to_numeric_panics(enc.tier, enc.rank)
       THEN [enc EXCEPT !.pc = "panicked"]
       ELSE IF /\ league_to_numeric_overflows(enc.tier, enc.rank, enc.league_points)
               /\ enc.build = "debug"
       THEN [enc EXCEPT !.pc = "panicked"]
       ELSE [enc EXCEPT !.pc = "encoded",
                        !.x = league_to_numeric(enc.tier, enc.rank, enc.league_points)]
  /\ UNCHANGED <<pbVars, dcVars, summoner_list, loc, storeVars, now, ticks, cycle, en, build>>

\* numeric_league_util.rs:80-83  elo_to_str on the encoded value:
\* numeric_to_league, then league_to_str
Enc_NumericToLeague ==
  /\ enc.pc = "encoded"
  /\ LET l == numeric_to_league(enc.x)
     IN enc' = [enc EXCEPT !.pc = "decoded", !.league = l,
                           !.text = league_to_str(l[1], l[2], l[3])]
  /\ UNCHANGED <<pbVars, dcVars, summoner_list, loc, storeVars, now, ticks, cycle, en, build>>

\* numeric_league_util.rs:86-119  team_avg_rank_str returns or panics
Enc_TeamAvg ==
  /\ enc.pc = "call"
  /\ enc.op = "team_avg_rank_str"
  /\ enc' =
       IF team_avg_rank_str_panics(enc.ranks)
       THEN [enc EXCEPT !.pc = "panicked"]
       ELSE IF SumOverflows(enc.ranks) /\ enc.build = "debug"
       THEN [enc EXCEPT !.pc = "panicked"]
       ELSE [enc EXCEPT !.pc = "returned",
                        !.text = team_avg_rank_str(enc.ranks)]
  /\ UNCHANGED <<pbVars, dcVars, summoner_list, loc, storeVars, now, ticks, cycle, en, build>>

EncInit ==
  /\ PB_Off
  /\ DC_Off
  /\ summoner_list = <<>>
  /\ loc = <<>>
  /\ matches = {} /\ summoners = {} /\ leagues = {}
  /\ now = 0 /\ ticks = 0 /\ cycle = 1
  /\ en = EnOff
  /\ build \in Builds
  /\ \/ \E tier \in EncTiers, rank \in EncRanks, lp \in EncPoints :
          enc = EncCall("league_to_numeric", build, tier, rank, lp, <<>>)
     \/ \E ranks \in EncTeams :
          enc = EncCall("team_avg_rank_str", build, "", "", 0, ranks)

EncNext ==
  \/ Enc_LeagueToNumeric
  \/ Enc_NumericToLeague
  \/ Enc_TeamAvg

SpecEnc == EncInit /\ [][EncNext]_vars

\* ---------------------------------------- the aggregation specification
\* process_match_id has missed a match id and get_match has returned a game
\* of n <= MaxParticipants participants p1 .. pn, each of whom the store
\* holds: an identity document, and a standing document that is unranked, or
\* ranked GOLD II 50 LP, or (the first participant) CHALLENGER I 900 LP, a
\* tier the encoder does not know, or MASTER I with league points at which
\* the encoding, or the sum with the next encoding, leaves i32.
\* get_extended_participant_info runs over them and the match is inserted.
AggPuuid(i) == "p" \o ToString(i)
AggSummonerId(i) == "sp" \o ToString(i)

\* The Summoner of participant i, as get_by_puuid gave it (main.rs:330-334).
AggSummoner(i) ==
  [id |-> AggSummonerId(i), puuid |-> AggPuuid(i),
   name |-> "name-" \o AggSummonerId(i), accountId |-> "acc-" \o AggSummonerId(i)]

\* The LeagueEntry list of a participant of standing k, as
\* get_league_entries_for_summoner gave it (main.rs:372-376).
AggEntries(i, k) ==
  CASE k = 0 -> <<>>
    [] k = 1 -> <<[queueType |-> "RANKED_TFT", summonerId |-> AggSummonerId(i),
                   tier |-> "GOLD", rank |-> "II", leaguePoints |-> 50]>>
    [] k = 2 -> <<[queueType |-> "RANKED_TFT", summonerId |-> AggSummonerId(i),
                   tier |-> "CHALLENGER", rank |-> "I", leaguePoints |-> 900]>>
    [] k = 3 -> <<[queueType |-> "RANKED_TFT", summonerId |-> AggSummonerId(i),
                   tier |-> "EMERALD", rank |-> "II", leaguePoints |-> 50]>>
    [] k = 4 -> <<[queueType |-> "RANKED_TFT", summonerId |-> AggSummonerId(i),
                   tier |-> "MASTER", rank |-> "I", leaguePoints |-> I32_MAX]>>
    [] k = 5 -> <<[queueType |-> "RANKED_TFT", summonerId |-> AggSummonerId(i),
                   tier |-> "MASTER", rank |-> "I",
                   leaguePoints |-> I32_MAX - 2400]>>

\* The standings the participants of a game of n may have.
AggStandings(n) ==
  {st \in [1..n -> 0..5] : \A i \in 1..n : st[i] >= 2 => i = 1}

AggInit ==
  \E n \in 0..MaxParticipants : \E st \in AggStandings(n) :
    LET game == [participants |-> [i \in 1..n |-> AggPuuid(i)],
                 game_datetime |-> -10]
        l0 == [FreshLoc EXCEPT !.player = "u0", !.player_match = <<"m0">>,
                               !.mi = 1, !.current_timestamp = 0]
        got == GotMatch(l0, game, "m0")
    IN /\ PB_Off
       /\ now = 0 /\ ticks = 0 /\ cycle = 1
       /\ en = EnOff
       /\ enc = EncOff
       /\ build \in Builds
       /\ q = <<>> /\ futures = {1} /\ cpc = "next"
       /\ handled = <<0>>
       /\ summoner_list = <<"s0">>
       /\ tpc = <<got.pc>>
       /\ loc = <<got.loc>>
       /\ matches = {}
       /\ summoners = {SummonerDoc(AggSummoner(i), AggPuuid(i), 0) : i \in 1..n}
       /\ leagues = {LeagueDoc(AggEntries(i, st[i]), AggSummonerId(i), 0) : i \in 1..n}

AggNext ==
  \/ \E t \in Players, o \in IoOutcomes : S_FindOne(t, o)
  \/ \E t \in Players, o \in IoOutcomes : L_FindOne(t, o)
  \/ \E t \in Players, o \in IoOutcomes : P_InsertMatch(t, o)

SpecAgg == AggInit /\ [][AggNext]_vars

\* ====================================================== the claims
\* ---------------------------------------------------------------- C1
\* How often the result handler was invoked for task t of promise_buffer.
PbHandled(t) == Len(on_result[t])

\* C1 (as stated): for any queue of K tasks and any limit N <= K, no task's
\* result is ever handled twice, and once the scheduler run has finished the
\* handler has been invoked exactly once for each of the K tasks; for
\* promise_buffer with N = sz, for the loop of do_cycle with N = 10.
C1_ExactlyOncePerTask ==
  /\ \A t \in PbTasks : PbHandled(t) <= 1
  /\ (pb_pc = "done" /\ sz <= Cardinality(PbTasks))
       => \A t \in PbTasks : PbHandled(t) = 1
  /\ \A t \in Players : handled[t] <= 1
  /\ (cpc = "done" /\ FUTURES_LIMIT <= Cardinality(Players))
       => \A t \in Players : handled[t] = 1

\* C1 (amended): the same for any limit N with 1 <= N <= K. With N = 0
\* promise_buffer starts no task and returns at once.
C1_ExactlyOncePerTask_PositiveLimit ==
  /\ \A t \in PbTasks : PbHandled(t) <= 1
  /\ (pb_pc = "done" /\ 1 <= sz /\ sz <= Cardinality(PbTasks))
       => \A t \in PbTasks : PbHandled(t) = 1
  /\ \A t \in Players : handled[t] <= 1
  /\ (cpc = "done" /\ FUTURES_LIMIT <= Cardinality(Players))
       => \A t \in Players : handled[t] = 1

\* C1 witness: promise_buffer has finished a run over 3 tasks with limit 2,
\* each task handled once.
C1_Witness ==
  /\ pb_pc = "done"
  /\ sz = 2
  /\ Cardinality(PbTasks) = 3
  /\ \A t \in PbTasks : PbHandled(t) = 1

\* ---------------------------------------------------------------- C2
\* The tasks of promise_buffer that were started and whose result on_result
\* has not yet been given: those in vec, or given back in z, and the one
\* whose result is at hand.
PbInFlight ==
  Cardinality(vec) + Cardinality(z) + (IF result # NoResult THEN 1 ELSE 0)

\* C2: in every reachable state of a scheduler run the number of tasks in
\* flight is at most the limit: sz in promise_buffer, 10 in do_cycle.
C2_InFlightAtMostLimit ==
  /\ pb_pc # "off" => PbInFlight <= sz
  /\ cpc # "off" => Cardinality(futures) <= FUTURES_LIMIT

\* C2 witness: do_cycle holds 10 tasks in flight while a player still waits
\* in q.
C2_Witness ==
  /\ cpc = "next"
  /\ Cardinality(futures) = FUTURES_LIMIT
  /\ q # <<>>

\* ------------------------------------------- helpers of the crawl claims
\* Task t takes this step.
StepOf(t) ==
  /\ t \in DOMAIN tpc'
  /\ tpc'[t] # tpc[t] \/ loc'[t] # loc[t]

\* The documents a collection holds under an id.
Stored(coll, id) == {d \in coll : d._id = id}

\* A document that holds the id, the creation time and the expiry only.
IsTombstone(d) == DOMAIN d = {"_id", "_documentCreated", "_documentExpire"}
\* A full match document.
IsFullMatch(d) == "_matchTimestamp" \in DOMAIN d

\* process_match_id of task t returns with this step, the arm of the caller
\* counting it in the counter named by field.
ReturnsCounted(t, field) ==
  /\ tpc'[t] \in {"count", "done"}
  /\ tpc'[t] = "count" =>
       /\ loc'[t].mi = loc[t].mi + 1
       /\ loc'[t][field] = loc[t][field] + 1

\* The positions of process_match_id after get_match has answered.
AfterGetMatch ==
  {"m_insert", "tomb_insert", "s_find", "s_fetch", "s_insert",
   "l_find", "l_fetch", "l_insert"}

\* ---------------------------------------------------------------- C3
\* C3 (as stated), for match ids: while no document has expired (no time
\* has passed), the upstream fetch for an id is performed at most once, even
\* when several tasks resolve the id at the same time; so no two tasks are
\* ever both past the upstream fetch of the same match id.
C3_FetchedAtMostOnce ==
  ticks = 0 =>
    \A t1 \in Players, t2 \in Players :
      (t1 # t2 /\ tpc[t1] \in AfterGetMatch /\ tpc[t2] \in AfterGetMatch)
        => CurMatch(t1) # CurMatch(t2)

\* C3 (amended): in every interleaving of the player tasks, a resolution
\* calls the upstream for an id only after it has itself observed a miss for
\* that id; a resolution that observes a stored document calls no upstream
\* and attempts no insert for the id; and an insert succeeds only for an id
\* under which nothing is stored, one document at a time, so that of the
\* inserts attempted for an id by tasks that missed at the same time at most
\* one succeeds.
C3_FetchOnlyAfterOwnMiss ==
  [][ /\ \A t \in Players :
           StepOf(t) =>
             /\ (tpc[t] # "get_match" /\ tpc'[t] = "get_match")
                  => (tpc[t] = "count" /\ Stored(matches, CurMatch(t)) = {})
             /\ (tpc[t] # "s_fetch" /\ tpc'[t] = "s_fetch")
                  => (tpc[t] = "s_find" /\ Stored(summoners, CurPuuid(t)) = {})
             /\ (tpc[t] # "l_fetch" /\ tpc'[t] = "l_fetch")
                  => (tpc[t] = "l_find" /\ Stored(leagues, CurSummonerId(t)) = {})
             /\ (tpc[t] = "count" /\ Stored(matches, CurMatch(t)) # {})
                  => (tpc'[t] \in {"count", "done"} /\ matches' = matches)
             /\ (tpc[t] = "s_find" /\ Stored(summoners, CurPuuid(t)) # {})
                  => (tpc'[t] \notin {"s_fetch", "s_insert"} /\ summoners' = summoners)
             /\ (tpc[t] = "l_find" /\ Stored(leagues, CurSummonerId(t)) # {})
                  => (tpc'[t] \notin {"l_fetch", "l_insert"} /\ leagues' = leagues)
      /\ \A d \in matches' \ matches :
           Stored(matches, d._id) = {} /\ matches' = matches \cup {d}
      /\ \A d \in summoners' \ summoners :
           Stored(summoners, d._id) = {} /\ summoners' = summoners \cup {d}
      /\ \A d \in leagues' \ leagues :
           Stored(leagues, d._id) = {} /\ leagues' = leagues \cup {d}
    ]_vars

\* C3 witness: two tasks missed the same match id at the same time and both
\* called the upstream; the insert of one has succeeded, the other is about
\* to attempt its own.
C3_Witness ==
  \E t \in Players :
    /\ tpc[t] = "m_insert"
    /\ loc[t].doc \notin matches
    /\ Stored(matches, CurMatch(t)) # {}

\* ---------------------------------------------------------------- C4
\* C4: a PlayerIdentity resolved while the document an earlier resolution
\* wrote is still stored is a pure read: the resolution calls no upstream,
\* inserts nothing, and returns the stored document (or ends in the store's
\* own read error); and the resolution that wrote the document returned
\* exactly the document it inserted, after one upstream fetch and one insert.
C4_SecondResolutionIsPureRead ==
  [][ \A t \in Players :
        StepOf(t) =>
          /\ (tpc[t] = "s_find" /\ Stored(summoners, CurPuuid(t)) # {})
               => /\ storeVars' = storeVars
                  /\ tpc'[t] \in {"l_find", "count", "done"}
                  /\ tpc'[t] = "l_find"
                       => /\ loc'[t].summoner_doc \in Stored(summoners, CurPuuid(t))
                          /\ loc'[t].doc = NoDoc
          /\ (tpc[t] = "s_insert" /\ tpc'[t] = "l_find")
               => /\ loc[t].doc._id = CurPuuid(t)
                  /\ summoners' = summoners \cup {loc[t].doc}
                  /\ summoners' # summoners
                  /\ loc'[t].summoner_doc = loc[t].doc
    ]_vars

\* C4 witness: no time has passed, a task has stored its first match, whose
\* participant it resolved, and has resolved the same participant again for
\* its second match: the stored document was returned.
C4_Witness ==
  \E t \in Players :
    /\ ticks = 0
    /\ tpc[t] = "l_find"
    /\ loc[t].mi = 2
    /\ loc[t].new = 1
    /\ loc[t].summoner_doc \in summoners

\* ---------------------------------------------------------------- C5
\* C5: each collection holds at most one document per id, and a stored
\* document is never changed or replaced: it stays as it is until the
\* store's expiry removes it, and a document is added only under an id
\* under which nothing is stored.
C5_OneDocumentPerId ==
  /\ [](\A d \in matches : Stored(matches, d._id) = {d})
  /\ [](\A d \in summoners : Stored(summoners, d._id) = {d})
  /\ [](\A d \in leagues : Stored(leagues, d._id) = {d})
  /\ [][ /\ \A d \in matches :
              d \in matches' \/ (d._documentExpire <= now /\ Stored(matches', d._id) = {})
         /\ \A d \in summoners :
              d \in summoners' \/ (d._documentExpire <= now /\ Stored(summoners', d._id) = {})
         /\ \A d \in leagues :
              d \in leagues' \/ (d._documentExpire <= now /\ Stored(leagues', d._id) = {})
         /\ \A d \in matches' \ matches : Stored(matches, d._id) = {}
         /\ \A d \in summoners' \ summoners : Stored(summoners, d._id) = {}
         /\ \A d \in leagues' \ leagues : Stored(leagues, d._id) = {}
       ]_vars

\* C5 witness: the three collections hold documents, and a task is about to
\* insert a dummy document under a match id whose full document is stored.
C5_Witness ==
  /\ summoners # {} /\ leagues # {}
  /\ \E t \in Players :
       /\ tpc[t] = "tomb_insert"
       /\ \E d \in Stored(matches, loc[t].doc._id) : IsFullMatch(d)

\* ---------------------------------------------------------------- C6
\* The dummy document the claim describes, for the match id and the clock
\* reading of task t.
IsTombstoneOf(d, t) ==
  /\ DOMAIN d = {"_id", "_documentCreated", "_documentExpire"}
  /\ d._id = CurMatch(t)
  /\ d._documentCreated = loc[t].current_timestamp
  /\ d._documentExpire = d._documentCreated + 24

\* C6 (as stated): when a match id misses and get_match fails or returns no
\* match, process_match_id inserts a document that holds only the id, the
\* creation time and an expiry 24 hours after it, and returns -1, never an
\* error. (A step after which nothing is stored under the id, the store
\* call itself having failed, is left aside.)
C6_TombstoneInsertedSentinelReturned ==
  [][ \A t \in Players :
        StepOf(t) =>
          /\ (tpc[t] = "get_match" /\ tpc'[t] \notin {"s_find", "m_insert"})
               => (tpc'[t] = "tomb_insert" /\ IsTombstoneOf(loc'[t].doc, t))
          /\ (tpc[t] = "tomb_insert" /\ Stored(matches', CurMatch(t)) # {})
               => /\ Stored(matches', CurMatch(t)) = {loc[t].doc}
                  /\ matches' # matches
                  /\ ReturnsCounted(t, "new_error")
    ]_vars

\* C6 (amended): when a match id misses and get_match fails or returns no
\* match, process_match_id attempts the insert of a document that holds only
\* the id, the creation time and an expiry 24 hours after it; when the insert
\* succeeds the document is stored and -1 is returned; when the insert fails
\* (a document was stored under the id since the miss, or the store call
\* fails) nothing is stored and an error is returned.
C6_TombstoneAttemptedSentinelIfStored ==
  [][ \A t \in Players :
        StepOf(t) =>
          /\ (tpc[t] = "get_match" /\ tpc'[t] \notin {"s_find", "m_insert"})
               => (tpc'[t] = "tomb_insert" /\ IsTombstoneOf(loc'[t].doc, t))
          /\ tpc[t] = "tomb_insert"
               => \/ /\ Stored(matches, CurMatch(t)) = {}
                     /\ matches' = matches \cup {loc[t].doc}
                     /\ IsTombstoneOf(loc[t].doc, t)
                     /\ ReturnsCounted(t, "new_error")
                  \/ /\ matches' = matches
                     /\ ReturnsCounted(t, "errors")
    ]_vars

\* C6 witness: the first match of a task was answered by the dummy document,
\* which is stored, and counted as -1.
C6_Witness ==
  \E t \in Players :
    /\ tpc[t] = "count"
    /\ loc[t].mi = 2
    /\ loc[t].new_error = 1
    /\ \E d \in Stored(matches, loc[t].player_match[1]) : IsTombstone(d)

\* ---------------------------------------------------------------- C7
\* C7: a resolution of a match id that begins while a dummy document is
\* stored under the id calls no upstream and inserts nothing: the call
\* returns from the count, as a repeat (or, when the count itself fails, as
\* that store error), in the cycle that stored the document and in later
\* ones.
C7_TombstoneSuppressesRefetch ==
  [][ \A t \in Players :
        (/\ StepOf(t)
         /\ tpc[t] = "count"
         /\ \E d \in Stored(matches, CurMatch(t)) : IsTombstone(d))
          => /\ storeVars' = storeVars
             /\ tpc'[t] \notin {"get_match", "tomb_insert", "m_insert"}
             /\ ReturnsCounted(t, "repeat") \/ ReturnsCounted(t, "errors")
    ]_vars

\* C7 witness: in a later cycle a task has counted its first match as a
\* repeat against the dummy document an earlier cycle stored (no other task
\* of this cycle has begun).
C7_Witness ==
  /\ cycle = 2
  /\ \E t \in Players :
       /\ tpc[t] = "count"
       /\ loc[t].mi = 2
       /\ loc[t].repeat = 1
       /\ \E d \in Stored(matches, loc[t].player_match[1]) : IsTombstone(d)
       /\ \A u \in Players \ {t} : tpc[u] = "new"

\* ---------------------------------------------------------------- C8
\* C8: every stored full match document has expiry = max(creation + 24 h,
\* matchTimestamp + 7 d): never earlier than either, creation + 24 h when the
\* match is more than 7 days older than the creation, matchTimestamp + 7 d
\* whenever that exceeds creation + 24 h.
C8_MatchExpiryFloor ==
  \A d \in matches :
    IsFullMatch(d) =>
      LET c == d._documentCreated
          m == d._matchTimestamp
          e == d._documentExpire
      IN /\ e >= c + 24
         /\ e >= m + 168
         /\ e = c + 24 \/ e = m + 168
         /\ m + 168 < c => e = c + 24
         /\ m + 168 > c + 24 => e = m + 168

\* C8 witness: the store holds a full document whose expiry is its creation
\* + 24 h (an old match) and one whose expiry is its matchTimestamp + 7 d.
C8_Witness ==
  /\ \E d \in matches :
       /\ IsFullMatch(d)
       /\ d._matchTimestamp + 168 < d._documentCreated
       /\ d._documentExpire = d._documentCreated + 24
  /\ \E d \in matches :
       /\ IsFullMatch(d)
       /\ d._matchTimestamp + 168 > d._documentCreated + 24
       /\ d._documentExpire = d._matchTimestamp + 168

\* ---------------------------------------------------------------- C9
\* The stored participants of a match document whose standing was ranked.
RankedOf(d) ==
  {i \in 1..Len(d._aggregatedPlayerInfo) :
     d._aggregatedPlayerInfo[i].tftTier # "unranked"}

\* The sum, in i32, of the encodings of the ranked participants from
\* position i on.
RECURSIVE RankedSumFrom(_, _)
RankedSumFrom(info, i) ==
  IF i > Len(info) THEN 0
  ELSE WrappingAdd(IF info[i].tftTier # "unranked"
                   THEN league_to_numeric(info[i].tftTier, info[i].tftRank,
                                          info[i].tftLeaguePoints)
                   ELSE 0,
                   RankedSumFrom(info, i + 1))

\* C9: for every match stored on a miss, whatever the number of participants
\* and the mix of standings: when exactly 8 participants resolved to a
\* ranked standing, the stored average is the truncated mean of their 8
\* encodings (the i32 sum divided by 8) and the text its rendering; in every
\* other case the stored number is the unknown sentinel and the text is
\* "UNRANKED".
C9_AverageOnlyForEightRanked ==
  \A d \in matches :
    IsFullMatch(d) =>
      LET info == d._aggregatedPlayerInfo
      IN IF Cardinality(RankedOf(d)) = 8
         THEN /\ d._avgElo = TruncDiv(RankedSumFrom(info, 1), 8)
              /\ d._avgElo # I32_MIN
              /\ d._avgEloText =
                   team_avg_rank_str([i \in 1..Len(info) |->
                     <<info[i].tftTier, info[i].tftRank, info[i].tftLeaguePoints>>])
              /\ d._avgEloText # "UNRANKED"
         ELSE /\ d._avgElo = I32_MIN
              /\ d._avgEloText = "UNRANKED"

\* C9 witness: a match of 8 ranked participants is stored with its computed
\* average (one CHALLENGER I 900 and seven GOLD II 50: 13450 / 8 = 1681).
C9_Witness ==
  \E d \in matches :
    /\ IsFullMatch(d)
    /\ Cardinality(RankedOf(d)) = 8
    /\ d._avgElo = 1681
    /\ d._avgEloText = "PLATINUM IV 81LP"

\* --------------------------------------------------------------- C10
\* C10: when tft_summoner_v1 or tft_league_v1 has missed and the upstream
\* call fails, the resolution ends in an error, which process_match_id
\* returns, and no collection changes: nothing is stored under the id.
C10_FetchFailureStoresNothing ==
  [][ \A t \in Players :
        StepOf(t) =>
          /\ (tpc[t] = "s_fetch" /\ tpc'[t] # "s_insert")
               => (storeVars' = storeVars /\ ReturnsCounted(t, "errors"))
          /\ (tpc[t] = "l_fetch" /\ tpc'[t] # "l_insert")
               => (storeVars' = storeVars /\ ReturnsCounted(t, "errors"))
    ]_vars

\* C10 witness: a task whose first match ended in an error with nothing
\* stored resolves the same participant for its second match, misses again
\* and is at the upstream call.
C10_Witness ==
  \E t \in Players :
    /\ tpc[t] = "s_fetch"
    /\ loc[t].mi = 2
    /\ loc[t].errors = 1
    /\ summoners = {} /\ leagues = {} /\ matches = {}

\* --------------------------------------------------------------- C11
\* C11: for any (tier, division) pair get_top_players calls
\* get_league_entries at most 5 times; when all 5 calls have failed it
\* panics ("Too many failures") and not earlier; after the panic nothing of
\* the enumeration moves, and the next pair is reached only from a call that
\* succeeded after fewer than 5 failures.
C11_FiveAttemptsThenFatal ==
  /\ [](/\ en.attempts <= 5
        /\ en.num_failures <= 5
        /\ (en.num_failures = 5 <=> en.pc = "panicked")
        /\ (en.pc = "panicked" => en.attempts = 5 /\ cpc = "panicked"))
  /\ [][ /\ (en.pc = "panicked" => en' = en)
         /\ (en'.attempts = en.attempts + 1
               => en'.pair = en.pair /\ en.num_failures = en.attempts
                  /\ en.attempts <= 4)
         /\ (en'.pair # en.pair /\ en.pc # "done" /\ en'.pc # "done"
               => en.pc = "page" /\ en.num_failures <= 4
                  /\ en'.num_failures = 0)
     ]_vars

\* C11 witness: the third pair has failed five times in five calls, after
\* two pairs that were enumerated, and the enumerator has panicked.
C11_Witness ==
  /\ en.pc = "panicked"
  /\ en.pair = 3
  /\ en.attempts = 5
  /\ en.num_failures = 5

\* --------------------------------------------------------------- C12
\* C12: no error of an upstream or store call ends the region's loop: the
\* region's task never panics, so that run is always in, or about to start,
\* a cycle.
C12_LoopNeverTerminates == cpc # "panicked"

\* --------------------------------------------------------------- C13
\* C13: when select_all gives a task's error, every other future of vec
\* comes back in z and q is left alone; on_result is then called with that
\* error, for that task only, and the futures of z are in flight again with
\* q as it was; a run in which a task has failed ends with one result
\* handled for every task of the queue. In do_cycle a finished task, failed
\* or not, leaves futures alone and takes nothing from q.
C13_FailureIsolated ==
  /\ [][ /\ (pb_pc = "check" /\ pb_pc' = "on_result" /\ result'[2] = "err")
              => /\ result'[1] \in vec
                 /\ z' = vec \ {result'[1]}
                 /\ pb_q' = pb_q
                 /\ on_result' = on_result
         /\ (pb_pc = "on_result" /\ pb_pc' = "fill" /\ result[2] = "err")
              => /\ on_result'[result[1]] = Append(on_result[result[1]], "err")
                 /\ \A u \in PbTasks \ {result[1]} : on_result'[u] = on_result[u]
                 /\ vec' = z
                 /\ pb_q' = pb_q
         /\ (cpc = "next" /\ cpc' = "check")
              => /\ Cardinality(futures \ futures') = 1
                 /\ futures' \subseteq futures
                 /\ q' = q
     ]_vars
  /\ []((pb_pc = "done" /\ \E t \in PbTasks : on_result[t] = <<"err">>)
          => \A u \in PbTasks : Len(on_result[u]) = 1)

\* C13 witness: a run of three tasks with two at a time has finished; the
\* first task failed, and the handler was called with its error and with the
\* results of the other two.
C13_Witness ==
  /\ pb_pc = "done"
  /\ sz = 2
  /\ on_result = << <<"err">>, <<"ok">>, <<"ok">> >>

\* --------------------------------------------------------------- C14
\* C14 (as stated): a scheduler run whose started tasks all complete
\* finishes, and it has finished only with the pending queue empty and no
\* task in flight; for promise_buffer and for the loop of do_cycle.
C14_FinishesDrained ==
  /\ (pb_pc # "off") ~> (pb_pc = "done")
  /\ (cpc # "off") ~> (cpc = "done")
  /\ [](pb_pc = "done" => pb_q = <<>> /\ PbInFlight = 0)
  /\ [](cpc = "done" => q = <<>> /\ futures = {})

\* C14, for a limit of at least 1: a scheduler run whose started tasks all
\* complete finishes, and it has finished only with the pending queue empty
\* and no task in flight. (With sz = 0 promise_buffer finishes as well, with
\* the queue as it was given.)
C14_FinishesDrained_PositiveLimit ==
  /\ (pb_pc # "off") ~> (pb_pc = "done")
  /\ (cpc # "off") ~> (cpc = "done")
  /\ []((pb_pc = "done" /\ sz >= 1) => pb_q = <<>> /\ PbInFlight = 0)
  /\ []((pb_pc = "done" /\ sz = 0) => PbInFlight = 0)
  /\ [](cpc = "done" => q = <<>> /\ futures = {})

\* C14 witness: a run of three tasks with two at a time has finished, every
\* task handled, nothing pending and nothing in flight.
C14_Witness ==
  /\ pb_pc = "done"
  /\ sz = 2
  /\ \A t \in PbTasks : Len(on_result[t]) = 1
  /\ Len(on_result) = 3
  /\ pb_q = <<>> /\ vec = {}

\* --------------------------------------------------------------- C15
\* A call of league_to_numeric with the result decoded by numeric_to_league.
EncDecoded == enc.pc = "decoded" /\ enc.op = "league_to_numeric"

\* A call of league_to_numeric that is over: it has panicked, or its result
\* has been decoded.
EncOver ==
  /\ enc.pc \in {"panicked", "decoded"}
  /\ enc.op = "league_to_numeric"

\* C15 (as stated): league_to_numeric followed by numeric_to_league gives
\* back (t, d, p) for every tier IRON..DIAMOND, division IV..I and
\* 0 <= p < 100, and ("MASTER+", "I", p) for every apex tier and every
\* p >= 0.
C15_RoundTrip ==
  EncOver =>
    /\ (enc.tier \in LowTiers /\ enc.rank \in Divisions
          /\ 0 <= enc.league_points /\ enc.league_points < 100)
         => EncDecoded /\ enc.league = <<enc.tier, enc.rank, enc.league_points>>
    /\ (enc.tier \in ApexTiers /\ enc.league_points >= 0)
         => EncDecoded /\ enc.league = <<"MASTER+", "I", enc.league_points>>

\* C15, for points whose encoding fits in i32: league_to_numeric followed by
\* numeric_to_league gives back (t, d, p) for every tier IRON..DIAMOND,
\* division IV..I and 0 <= p < 100, and ("MASTER+", "I", p) for every apex
\* tier and 0 <= p <= i32::MAX - 2400. For an apex tier and larger p a
\* debug build panics and a release build decodes the wrapped value as
\* IRON IV with negative points.
C15_RoundTrip_InI32 ==
  EncOver =>
    /\ (enc.tier \in LowTiers /\ enc.rank \in Divisions
          /\ 0 <= enc.league_points /\ enc.league_points < 100)
         => EncDecoded /\ enc.league = <<enc.tier, enc.rank, enc.league_points>>
    /\ (enc.tier \in ApexTiers /\ enc.league_points >= 0
          /\ enc.league_points <= I32_MAX - 2400)
         => EncDecoded /\ enc.league = <<"MASTER+", "I", enc.league_points>>
    /\ (enc.tier \in ApexTiers /\ enc.league_points > I32_MAX - 2400)
         => IF enc.build = "debug" THEN enc.pc = "panicked"
            ELSE /\ EncDecoded
                 /\ enc.league[1] = "IRON" /\ enc.league[2] = "IV"
                 /\ enc.league[3] < 0

\* C15 witness: DIAMOND I 99, the top of the last band below the apex, has
\* come back from numeric_to_league.
C15_Witness ==
  /\ EncDecoded
  /\ enc.tier = "DIAMOND" /\ enc.rank = "I" /\ enc.league_points = 99
  /\ enc.x = 2399
  /\ enc.league = <<"DIAMOND", "I", 99>>

\* --------------------------------------------------------------- C16
\* The band a tier starts at, and the offset of a division in it, as the
\* claim gives them.
BandBase(tier) ==
  CASE tier = "IRON" -> 0
    [] tier = "BRONZE" -> 400
    [] tier = "SILVER" -> 800
    [] tier = "GOLD" -> 1200
    [] tier = "PLATINUM" -> 1600
    [] tier = "DIAMOND" -> 2000
    [] tier \in ApexTiers -> 2400

DivisionOffset(tier, rank) ==
  IF tier \in ApexTiers THEN 0
  ELSE CASE rank = "IV" -> 0
         [] rank = "III" -> 100
         [] rank = "II" -> 200
         [] rank = "I" -> 300

\* The call's labels are known to league_to_numeric.
EncKnown ==
  /\ enc.op = "league_to_numeric"
  /\ enc.tier \in LowTiers \cup ApexTiers
  /\ enc.tier \in LowTiers => enc.rank \in Divisions

\* The call's result is the integer b + league_points.
EncExactly(b) ==
  /\ enc.pc \in {"encoded", "decoded"}
  /\ enc.league_points <= I32_MAX - b
  /\ enc.x = b + enc.league_points

\* The examples of the claim.
EncExamples ==
  /\ (enc.tier = "GOLD" /\ enc.rank = "III" /\ enc.league_points = 100)
       => enc.x = 1400
  /\ (enc.tier = "GOLD" /\ enc.rank = "II" /\ enc.league_points = 0)
       => enc.x = 1400
  /\ (enc.tier = "PLATINUM" /\ enc.rank = "III" /\ enc.league_points = -32)
       => /\ enc.x = 1668
          /\ enc.pc = "decoded" => enc.league = <<"PLATINUM", "IV", 68>>

\* The decoded league is the band the value lies in: a value below the apex
\* band and not below 0 is decoded to the tier, division and points in
\* 0..99 that encode to it.
EncAdjacentBand ==
  (enc.pc = "decoded" /\ enc.x >= 0 /\ enc.x < 2400)
    => /\ enc.league[1] \in LowTiers /\ enc.league[2] \in Divisions
       /\ enc.league[3] \in 0..99
       /\ BandBase(enc.league[1]) + DivisionOffset(enc.league[1], enc.league[2])
            + enc.league[3] = enc.x

\* C16 (as stated): for every known tier and division and every points
\* value league_to_numeric returns base + division offset + points, with no
\* clamping; the examples hold, and the decoded value is in the adjacent
\* band.
C16_BandSpill ==
  (EncKnown /\ enc.pc # "call")
    => /\ EncExactly(BandBase(enc.tier) + DivisionOffset(enc.tier, enc.rank))
       /\ EncExamples
       /\ EncAdjacentBand

\* C16, for points whose encoding fits in i32: for every known tier and
\* division and every points value p with base + division offset + p
\* <= i32::MAX, league_to_numeric returns that sum, with no clamping; the
\* examples hold, and the decoded value is in the adjacent band. For larger
\* p a debug build panics and a release build returns the sum less 2^32.
C16_BandSpill_InI32 ==
  (EncKnown /\ enc.pc # "call")
    => LET b == BandBase(enc.tier) + DivisionOffset(enc.tier, enc.rank)
       IN /\ enc.league_points <= I32_MAX - b
               => /\ EncExactly(b)
                  /\ EncExamples
                  /\ EncAdjacentBand
          /\ enc.league_points > I32_MAX - b
               => IF enc.build = "debug" THEN enc.pc = "panicked"
                  ELSE /\ enc.pc \in {"encoded", "decoded"}
                       /\ enc.x = (enc.league_points - I32_MAX - 1)
                                    + (b - I32_MAX - 1)

\* C16 witness: PLATINUM III with -32 points has been encoded as 1668 and
\* decoded as PLATINUM IV 68.
C16_Witness ==
  /\ enc.pc = "decoded" /\ enc.op = "league_to_numeric"
  /\ enc.tier = "PLATINUM" /\ enc.rank = "III" /\ enc.league_points = -32
  /\ enc.x = 1668
  /\ enc.league = <<"PLATINUM", "IV", 68>>

\* --------------------------------------------------------------- C17
\* A call of team_avg_rank_str on 8 entries with known labels, that is over.
TeamOver ==
  /\ enc.op = "team_avg_rank_str"
  /\ enc.pc \in {"panicked", "returned"}
  /\ Len(enc.ranks) = 8
  /\ \A i \in 1..8 :
       /\ enc.ranks[i][1] \in LowTiers \cup ApexTiers
       /\ enc.ranks[i][2] \in Divisions

\* The encoding of entry i of the call, as the claim gives it, in two parts:
\* the encoding is 65536 * CodeHi(i) + CodeLo(i).
CodeHi(i) == enc.ranks[i][3] \div 65536

CodeLo(i) ==
  (enc.ranks[i][3] % 65536)
    + BandBase(enc.ranks[i][1]) + DivisionOffset(enc.ranks[i][1], enc.ranks[i][2])

\* The sum of the encodings of the first i entries, in the same two parts.
RECURSIVE PrefHi(_)
PrefHi(i) == IF i = 0 THEN 0 ELSE PrefHi(i - 1) + CodeHi(i)

RECURSIVE PrefLo(_)
PrefLo(i) == IF i = 0 THEN 0 ELSE PrefLo(i - 1) + CodeLo(i)

\* The number 65536 * h + l with the low part carried into the high part.
NormHi(h, l) == h + (l \div 65536)

NormLo(l) == l % 65536

\* The number 65536 * h + l lies within i32::MIN..i32::MAX.
InI32(h, l) == NormHi(h, l) >= -32768 /\ NormHi(h, l) <= 32767

\* No addition made for the list overflows an i32: every encoding, and every
\* running sum of the encodings taken in list order, lies within
\* i32::MIN..i32::MAX.
NoAddOverflows ==
  \A i \in 1..8 :
    InI32(CodeHi(i), CodeLo(i)) /\ InI32(PrefHi(i), PrefLo(i))

\* The sum of the 8 encodings lies within i32::MIN..i32::MAX.
TotalInI32 == InI32(PrefHi(8), PrefLo(8))

\* The sum of the 8 encodings taken modulo 2^32 into i32::MIN..i32::MAX.
WrappedTotal ==
  65536 * (((NormHi(PrefHi(8), PrefLo(8)) + 32768) % 65536) - 32768)
    + NormLo(PrefLo(8))

\* An eighth of t, truncated toward zero.
Eighth(t) == IF t >= 0 \/ t % 8 = 0 THEN t \div 8 ELSE (t \div 8) + 1

\* The integer mean of the 8 encodings, truncated toward zero, computed
\* without their sum.
EntryMean ==
  LET h == NormHi(PrefHi(8), PrefLo(8))
      l == NormLo(PrefLo(8))
      floor == 8192 * h + (l \div 8)
  IN IF h >= 0 \/ l % 8 = 0 THEN floor ELSE floor + 1

\* The weighted sum over the original tier labels.
TierVote ==
  3 * Cardinality({i \in 1..8 : enc.ranks[i][1] = "CHALLENGER"})
  + 2 * Cardinality({i \in 1..8 : enc.ranks[i][1] = "GRANDMASTER"})
  + Cardinality({i \in 1..8 : enc.ranks[i][1] = "MASTER"})

\* The text the claim gives for a mean m.
VoteText(m) ==
  LET l == numeric_to_league(m)
  IN IF m >= 2400
     THEN league_to_str(IF TierVote < 12 THEN "MASTER"
                        ELSE IF TierVote < 20 THEN "GRANDMASTER"
                        ELSE "CHALLENGER", l[2], l[3])
     ELSE league_to_str(l[1], l[2], l[3])

\* C17 (as stated): for every list of 8 entries with known tiers
\* team_avg_rank_str renders the decoded truncated mean of the 8 encodings,
\* with the tier chosen by the weighted vote when the mean is at least 2400.
C17_ApexVote ==
  TeamOver => enc.pc = "returned" /\ enc.text = VoteText(EntryMean)

\* C17, for lists in which no i32 addition overflows (every encoding and
\* every running sum of the encodings, in list order, lies within
\* i32::MIN..i32::MAX): in both builds team_avg_rank_str renders the decoded
\* mean of the 8 encodings truncated toward zero, with the tier chosen by the
\* weighted vote when the mean is at least 2400. When some addition
\* overflows, a debug build panics, and a release build renders in the same
\* way the mean of the sum taken modulo 2^32, which is the mean of the
\* encodings whenever their sum lies within i32::MIN..i32::MAX.
C17_ApexVote_InI32 ==
  TeamOver =>
    /\ IF NoAddOverflows
       THEN enc.pc = "returned" /\ enc.text = VoteText(EntryMean)
       ELSE IF enc.build = "debug" THEN enc.pc = "panicked"
       ELSE enc.pc = "returned" /\ enc.text = VoteText(Eighth(WrappedTotal))
    /\ (enc.build = "release" /\ TotalInI32)
         => enc.text = VoteText(EntryMean)

\* C17 witness: the list of 2 GRANDMASTER and 6 MASTER with the points 270
\* down to 200 has been rendered as MASTER I 235LP.
C17_Witness ==
  /\ enc.op = "team_avg_rank_str" /\ enc.pc = "returned"
  /\ Len(enc.ranks) = 8
  /\ enc.ranks[1] = <<"GRANDMASTER", "I", 270>>
  /\ enc.ranks[8] = <<"MASTER", "I", 200>>
  /\ TierVote = 10
  /\ EntryMean = 2635
  /\ enc.text = "MASTER I 235LP"

\* --------------------------------------------------------------- C18
\* A call of team_avg_rank_str that is over, on 8 entries with the points
\* 1144, 653, 625, 506, 526, 192, 0, 0 in this order.
ExampleOver ==
  /\ enc.op = "team_avg_rank_str"
  /\ enc.pc \in {"panicked", "returned"}
  /\ Len(enc.ranks) = 8
  /\ \A i \in 1..8 : enc.ranks[i][3] = ExamplePoints[i]

\* C18 (as stated): for 8 entries whose tiers are all among CHALLENGER,
\* GRANDMASTER and MASTER, with the points 1144, 653, 625, 506, 526, 192, 0,
\* 0, team_avg_rank_str returns "GRANDMASTER I 430LP".
C18_WorkedExample ==
  (ExampleOver /\ \A i \in 1..8 : enc.ranks[i][1] \in ApexTiers)
    => enc.pc = "returned" /\ enc.text = "GRANDMASTER I 430LP"

\* C18, with the tiers of the list of test_team_avg_rank_str: for the 8
\* entries CHALLENGER 1144, CHALLENGER 653, CHALLENGER 625, GRANDMASTER 506,
\* GRANDMASTER 526, MASTER 192, MASTER 0 and DIAMOND II 0, in this order,
\* team_avg_rank_str returns "GRANDMASTER I 430LP". With an apex tier at
\* each of the 8 places the points of the text are 455, whatever the tier.
C18_WorkedExample_WithDiamond ==
  ExampleOver =>
    /\ enc.pc = "returned"
    /\ (/\ \A i \in 1..3 : enc.ranks[i][1] = "CHALLENGER"
        /\ \A i \in 4..5 : enc.ranks[i][1] = "GRANDMASTER"
        /\ \A i \in 6..7 : enc.ranks[i][1] = "MASTER"
        /\ enc.ranks[8] = <<"DIAMOND", "II", 0>>)
         => enc.text = "GRANDMASTER I 430LP"
    /\ (\A i \in 1..8 : enc.ranks[i][1] \in ApexTiers)
         => enc.text \in {"MASTER I 455LP", "GRANDMASTER I 455LP",
                          "CHALLENGER I 455LP"}

\* C18 witness: the list of the test, DIAMOND II 0 at its end, has been
\* rendered as GRANDMASTER I 430LP.
C18_Witness ==
  /\ ExampleOver
  /\ enc.pc = "returned"
  /\ enc.ranks[1][1] = "CHALLENGER" /\ enc.ranks[2][1] = "CHALLENGER"
  /\ enc.ranks[3][1] = "CHALLENGER" /\ enc.ranks[4][1] = "GRANDMASTER"
  /\ enc.ranks[5][1] = "GRANDMASTER" /\ enc.ranks[6][1] = "MASTER"
  /\ enc.ranks[7][1] = "MASTER" /\ enc.ranks[8] = <<"DIAMOND", "II", 0>>
  /\ enc.text = "GRANDMASTER I 430LP"

\* --------------------------------------------------------------- C19
\* A stored standing is ranked with a tier outside the nine known labels, or
\* with a non-apex tier and a division outside IV, III, II, I.
UnknownLabelStored ==
  \E d \in leagues :
    /\ d._status = "ranked"
    /\ \/ d.tier \notin {"IRON", "BRONZE", "SILVER", "GOLD", "PLATINUM",
                         "DIAMOND", "MASTER", "GRANDMASTER", "CHALLENGER"}
       \/ /\ d.tier \notin {"MASTER", "GRANDMASTER", "CHALLENGER"}
          /\ d.rank \notin {"IV", "III", "II", "I"}

\* C19: when a standing with an unknown label reaches league_to_numeric
\* during the processing of a match, no integer is returned, the match
\* resolution ends as an error outcome of its task, and the region's loop
\* and the process go on: the region's task has not panicked, and no match
\* document with that standing is stored.
C19_UnknownLabelIsAnErrorOutcome ==
  UnknownLabelStored =>
    /\ cpc # "panicked"
    /\ matches = {}

\* --------------------------------------------------------------- C20
\* The positions of a player task inside process_match_id.
InMatch == {"count", "get_match"} \cup AfterGetMatch

\* The match ids the upstream lists for the player of a task, in its order.
UpstreamIds(l) == IF l.player = "u1" THEN <<"m1", "m2">> ELSE <<"m1">>

\* C20: in a cycle, nothing is in q or in futures and no player task has
\* begun before get_top_players has returned, which it does from the
\* successful call for the last of the pairs, the pairs taken one by one;
\* in a player task the position in player_match, the upstream's list in
\* its order, moves by one and only when the resolution of the match id at
\* that position has returned, and a document a task stores in matches has
\* the match id at the task's position.
C20_CycleOrdering ==
  /\ []((q # <<>> \/ futures # {} \/ \E t \in Players : tpc[t] # "new")
          => en.pc = "done" /\ en.pair = Len(Pairs))
  /\ [](\A t \in Players :
          tpc[t] \in InMatch
            => /\ loc[t].player_match = UpstreamIds(loc[t])
               /\ loc[t].mi \in 1..Len(loc[t].player_match))
  /\ [][ /\ (en.pc # "done" /\ en'.pc = "done")
              => /\ en.pc = "page"
                 /\ en.pair = Len(Pairs)
                 /\ summoner_list' = en'.out
         /\ (en'.pair # en.pair)
              => en'.pair = en.pair + 1 \/ (en.pc = "done" /\ en'.pair = 1)
         /\ \A t \in Players :
              StepOf(t) =>
                /\ (tpc[t] \in InMatch /\ tpc'[t] \in InMatch)
                     => /\ loc'[t].player_match = loc[t].player_match
                        /\ \/ loc'[t].mi = loc[t].mi
                           \/ /\ loc'[t].mi = loc[t].mi + 1
                              /\ tpc'[t] = "count"
                /\ (tpc[t] \notin InMatch /\ tpc'[t] \in InMatch)
                     => /\ tpc[t] = "get_match_ids"
                        /\ tpc'[t] = "count"
                        /\ loc'[t].mi = 1
                /\ (tpc'[t] = "count" /\ tpc[t] \in InMatch)
                     => loc'[t].mi = loc[t].mi + 1
                /\ (matches' # matches)
                     => /\ tpc[t] \in {"m_insert", "tomb_insert"}
                        /\ \E d \in matches' \ matches :
                             d._id = UpstreamIds(loc[t])[loc[t].mi]
     ]_vars

\* C20 witness: the enumeration has returned s1 and s2 after its seven
\* pairs, and the task of the first player, its first match id stored, is at
\* the second id of the upstream's list.
C20_Witness ==
  /\ en.pc = "done" /\ en.pair = 7
  /\ summoner_list = <<"s1", "s2">>
  /\ 1 \in Players
  /\ tpc[1] = "get_match"
  /\ loc[1].mi = 2
  /\ loc[1].player_match = <<"m1", "m2">>
  /\ Stored(matches, "m1") # {}

\* --------------------------------------------------------------- C21
\* The pages 1..n of the upstream's ladder for DIAMOND I, concatenated.
RECURSIVE FirstPages(_)
FirstPages(n) ==
  IF n = 0 THEN <<>>
  ELSE FirstPages(n - 1) \o (CASE n = 1 -> <<"s1">>
                               [] n = 2 -> <<"s2">>
                               [] n = 4 -> <<"s3">>
                               [] OTHER -> <<>>)

\* C21: an attempt for a pair asks for the pages 1, 2, 3, ... in order and
\* ends at the first empty page; while it runs it holds the pages read so
\* far, concatenated in page order; what a pair adds to the output is what
\* the one successful attempt read, and a retry begins at page 1 with
\* nothing read, so that nothing of a failed attempt is in the output.
C21_PagesOfTheSuccessfulAttempt ==
  /\ [](en.pc = "page"
          => /\ en.page \in 1..3
             /\ en.ret = (IF en.pair = 1 THEN FirstPages(en.page - 1) ELSE <<>>)
             /\ en.out = (IF en.pair = 1 THEN <<>> ELSE <<"s1", "s2">>))
  /\ [](en.pc = "done" => en.out = <<"s1", "s2">> /\ summoner_list = en.out)
  /\ [][ /\ (en.pc = "page" /\ en'.pc = "page" /\ en'.pair = en.pair)
              => /\ en'.page = en.page + 1
                 /\ en'.num_failures = en.num_failures
                 /\ en'.out = en.out
         /\ (en.pc = "page" /\ en'.pc \in {"sleep", "panicked"})
              => en'.out = en.out /\ en'.num_failures = en.num_failures + 1
         /\ (en.pc = "sleep" /\ en'.pc = "page")
              => /\ en'.page = 1 /\ en'.ret = <<>>
                 /\ en'.out = en.out /\ en'.pair = en.pair
         /\ (en.pc = "page" /\ (en'.pair = en.pair + 1 \/ en'.pc = "done"))
              => /\ en'.out = en.out \o en.ret
                 /\ en.page = (IF en.pair = 1 THEN 3 ELSE 1)
     ]_vars

\* C21 witness: an attempt for DIAMOND I has failed; the retry, the second
\* attempt, has read pages 1 and 2 again from the start and holds s1 and
\* s2, once each, about to read the empty third page.
C21_Witness ==
  /\ cpc = "enum"
  /\ en.pc = "page"
  /\ en.pair = 1
  /\ en.num_failures = 1 /\ en.attempts = 2
  /\ en.page = 3
  /\ en.ret = <<"s1", "s2">>

\* --------------------------------------------------------------- C22
\* C22: a step of a player task inside process_match_id, an error included,
\* moves nothing of the scheduler loop and nothing of another task; the
\* task leaves the loop over its match ids only from the last id; a
\* resolution that ends in an error is counted as logged only, stores
\* nothing, and the task goes on to the next id; and the cycle ends with
\* every task finished and taken once from futures.
C22_MatchErrorStaysInTask ==
  /\ [][ \A t \in Players :
           (StepOf(t) /\ tpc[t] \in InMatch) =>
             /\ cpc' = cpc /\ q' = q /\ futures' = futures
             /\ handled' = handled
             /\ \A u \in Players \ {t} : tpc'[u] = tpc[u] /\ loc'[u] = loc[u]
             /\ tpc'[t] \notin InMatch
                  => /\ tpc'[t] = "done"
                     /\ loc[t].mi = Len(loc[t].player_match)
             /\ (tpc'[t] \in InMatch /\ loc'[t].errors # loc[t].errors)
                  => /\ loc'[t].errors = loc[t].errors + 1
                     /\ tpc'[t] = "count"
                     /\ loc'[t].mi = loc[t].mi + 1
                     /\ loc'[t].new = loc[t].new
                     /\ loc'[t].repeat = loc[t].repeat
                     /\ loc'[t].new_error = loc[t].new_error
                     /\ storeVars' = storeVars
     ]_vars
  /\ [](cpc = "done" =>
          \A t \in Players : tpc[t] = "done" /\ handled[t] = 1)

\* C22 witness: the first match id of the first player ended in an error;
\* the task is in the resolution of its second id, which is not stored yet,
\* while the task of the second player is in flight as well.
C22_Witness ==
  /\ Players = {1, 2}
  /\ futures = {1, 2}
  /\ cpc = "next"
  /\ loc[1].errors = 1 /\ loc[1].mi = 2
  /\ tpc[1] = "get_match"
  /\ tpc[2] \in InMatch

\* --------------------------------------------------------------- C23
\* The documents of a collection under an id whose expiry time has not
\* passed.
Unexpired(coll, id) == {d \in Stored(coll, id) : d._documentExpire > now}

\* Task t takes a step in which its look-up of kind k ("match", "summoner"
\* or "league") finds a stored document: a match id is counted as a repeat,
\* tft_summoner_v1 goes on to the standing without a fetch, tft_league_v1
\* goes on to the next participant or to the insert of the match without a
\* fetch.
LookupHits(t, k) ==
  /\ StepOf(t)
  /\ CASE k = "match" ->
            /\ tpc[t] = "count" /\ tpc'[t] = "count"
            /\ loc'[t].repeat = loc[t].repeat + 1
       [] k = "summoner" -> tpc[t] = "s_find" /\ tpc'[t] = "l_find"
       [] k = "league" -> tpc[t] = "l_find" /\ tpc'[t] \in {"s_find", "m_insert"}

\* Task t takes a step in which its look-up of kind k finds nothing and
\* goes on to the upstream call.
LookupMisses(t, k) ==
  /\ StepOf(t)
  /\ CASE k = "match" -> tpc[t] = "count" /\ tpc'[t] = "get_match"
       [] k = "summoner" -> tpc[t] = "s_find" /\ tpc'[t] = "s_fetch"
       [] k = "league" -> tpc[t] = "l_find" /\ tpc'[t] = "l_fetch"

\* The collection and the id of the look-up of kind k of task t.
LookupColl(k) ==
  CASE k = "match" -> matches
    [] k = "summoner" -> summoners
    [] k = "league" -> leagues

LookupId(t, k) ==
  CASE k = "match" -> loc[t].player_match[loc[t].mi]
    [] k = "summoner" -> loc[t].game.participants[loc[t].pi]
    [] k = "league" -> loc[t].summoner_doc.id

LookupKinds == {"match", "summoner", "league"}

\* C23 (as stated): for each kind, a resolution is a cache hit only if the
\* stored document is not expired, and once the expiry time of the stored
\* document has passed the resolution of its id is a miss.
C23_HitOnlyIfNotExpired ==
  [][ \A t \in Players, k \in LookupKinds :
        LookupHits(t, k) => Unexpired(LookupColl(k), LookupId(t, k)) # {}
    ]_vars

\* C23, with the store's removal: for each kind, a resolution is a cache
\* hit exactly when a document is stored under the id, its expiry time
\* passed or not, and a miss, followed by the upstream call, exactly when
\* none is; the store removes only documents whose expiry time has passed;
\* once it has removed a document the next resolution of the id is a miss,
\* and the document then inserted is created at the time of that resolution
\* and not expired.
C23_MissOnceRemoved ==
  [][ /\ \A t \in Players, k \in LookupKinds :
           /\ LookupHits(t, k) => Stored(LookupColl(k), LookupId(t, k)) # {}
           /\ LookupMisses(t, k) => Stored(LookupColl(k), LookupId(t, k)) = {}
           /\ (LookupHits(t, k) \/ LookupMisses(t, k)) => storeVars' = storeVars
      /\ \A d \in (matches \ matches') \cup (summoners \ summoners')
                    \cup (leagues \ leagues') :
           d._documentExpire <= now
      /\ \A d \in (matches' \ matches) \cup (summoners' \ summoners)
                    \cup (leagues' \ leagues) :
           /\ d._documentCreated = now
           /\ d._documentExpire > now
           /\ Stored(matches \cup summoners \cup leagues, d._id) = {}
    ]_vars

\* C23 witness: 24 hours after the first cycle stored them, the documents
\* of match m2 and of the standing of s1 have expired and been removed, the
\* next resolutions missed, and the documents fetched again are stored,
\* created at hour 24; the document of m1, not expired, is the one of the
\* first cycle.
C23_Witness ==
  /\ now = 24
  /\ \E d \in Stored(matches, "m2") : d._documentCreated = 24
  /\ \E d \in Stored(leagues, "s1") : d._documentCreated = 24
  /\ \E d \in Stored(matches, "m1") : d._documentCreated = 0

\* --------------------------------------------------------------- C24
\* The upstream fetch of task t for a participant of its current match
\* fails with this step.
ParticipantFetchFails(t) ==
  /\ StepOf(t)
  /\ \/ tpc[t] = "s_fetch" /\ tpc'[t] # "s_insert"
     \/ tpc[t] = "l_fetch" /\ tpc'[t] # "l_insert"

\* C24: when the upstream fetch of a participant's identity or standing
\* fails, the fetch is not called again by that resolution: the resolution
\* of the match id ends there, in an error, and the task is at its next
\* match id or over; no collection changes, so neither a full record nor a
\* tombstone is stored under the match id.  A later look-up of a match id
\* under which nothing is stored is a miss: it is never counted as a repeat,
\* and when the look-up succeeds the match is fetched again.
C24_NoRetryNoTrace ==
  [][ \A t \in Players :
        /\ ParticipantFetchFails(t) =>
             /\ tpc'[t] \in {"count", "done"}
             /\ tpc'[t] = "count" =>
                  /\ loc'[t].mi = loc[t].mi + 1
                  /\ loc'[t].errors = loc[t].errors + 1
                  /\ loc'[t].new = loc[t].new
                  /\ loc'[t].repeat = loc[t].repeat
             /\ matches' = matches
             /\ summoners' = summoners
             /\ leagues' = leagues
             /\ {d \in matches' : d._id = loc[t].player_match[loc[t].mi]}
                  = {d \in matches : d._id = loc[t].player_match[loc[t].mi]}
        /\ ( /\ StepOf(t)
             /\ tpc[t] = "count"
             /\ {d \in matches : d._id = loc[t].player_match[loc[t].mi]} = {} ) =>
             /\ tpc'[t] \in {"get_match", "count", "done"}
             /\ tpc'[t] = "count" =>
                  /\ loc'[t].repeat = loc[t].repeat
                  /\ loc'[t].errors = loc[t].errors + 1
    ]_vars

\* C24 witness: the resolution of m1 by the task of player 1 ended in an
\* error after the identity of u1 had been stored and before any standing
\* was (the fetch of the standing failed), nothing is stored under m1, and
\* the task of player 2, which holds m1 too, has looked m1 up, missed, and
\* is at the upstream fetch of the match.
C24_Witness ==
  /\ {1, 2} \subseteq DOMAIN tpc
  /\ tpc[1] = "count"
  /\ loc[1].mi = 2
  /\ loc[1].errors = 1
  /\ Stored(summoners, "u1") # {}
  /\ leagues = {}
  /\ Stored(matches, "m1") = {}
  /\ tpc[2] = "get_match"
  /\ loc[2].player_match[loc[2].mi] = "m1"

\* --------------------------------------------------------------- C25
\* Task t, having missed its current match id, is at the insert of the
\* document it built (the full record or the tombstone).
AtMatchInsert(t) == tpc[t] \in {"m_insert", "tomb_insert"}

\* C25: when a task that missed a match id comes to its insert after
\* another task has inserted a document under that id, its insert fails:
\* the collection is unchanged, so the document of the first insert stays as
\* it is, and the match is reported as an error, adding to none of the
\* counts new, repeat and failed-fetch.  An insert that succeeds finds no
\* document under the id and leaves exactly its own, so of two tasks racing
\* on an id at most one inserts; no step alters or removes a stored match
\* document.
C25_RacingInserts ==
  [][ /\ \A t \in Players :
           (StepOf(t) /\ AtMatchInsert(t)) =>
             LET id == loc[t].player_match[loc[t].mi]
                 held == {d \in matches : d._id = id}
             IN /\ held # {} =>
                     /\ matches' = matches
                     /\ tpc'[t] \in {"count", "done"}
                     /\ tpc'[t] = "count" =>
                          /\ loc'[t].mi = loc[t].mi + 1
                          /\ loc'[t].errors = loc[t].errors + 1
                          /\ loc'[t].new = loc[t].new
                          /\ loc'[t].repeat = loc[t].repeat
                          /\ loc'[t].new_error = loc[t].new_error
                /\ matches' # matches =>
                     /\ held = {}
                     /\ matches' = matches \cup {loc[t].doc}
                     /\ loc[t].doc._id = id
      /\ matches \subseteq matches'
      /\ \A d, e \in matches' : d._id = e._id => d = e
    ]_vars

\* C25 witness: the tasks of players 1 and 2 both missed m1 before either
\* had inserted; one of them (player 2) has inserted its document, player 2
\* is done, and player 1, holding the document it built for m1, is at its
\* insert, which the store will refuse.
C25_Witness ==
  /\ {1, 2} \subseteq DOMAIN tpc
  /\ tpc[1] = "m_insert"
  /\ loc[1].player_match[loc[1].mi] = "m1"
  /\ loc[1].doc._id = "m1"
  /\ \E d \in matches : d._id = "m1" /\ IsFullMatch(d)
  /\ tpc[2] = "done"
====
